---- MODULE Spec2Model ----
(***************************************************************************)
(* Model of win-sdr-thumbs (src/src/lib.rs): the per-thread Direct2D       *)
(* resource cache, the render pipeline render_svg_to_hbitmap, the          *)
(* thumbnail provider (Initialize / GetThumbnail), the fallback renderer,  *)
(* the ffi_guard panic boundary and the CSS preprocessing of SVG input.    *)
(***************************************************************************)
EXTENDS Integers, Sequences, FiniteSets, TLC

\* ------------------------------------------------------------------------
\* Bounds of the model
\* ------------------------------------------------------------------------
MaxCalls == 3          \* entry-point calls started in one behaviour
MaxParCalls == 3       \* the same when calls on different threads overlap

\* ------------------------------------------------------------------------
\* Program constants
\* ------------------------------------------------------------------------
MAX_DIM == 4096                  \* lib.rs:812, largest accepted width/height
MAX_SIZE == 105906176            \* lib.rs:1120, 101 * 1024 * 1024
CHUNK_LEN == 65536               \* lib.rs:1141, read buffer length

Threads == {"t1", "t2"}
Providers == {"p1"}

\* Option<T> as a sequence of length 0 or 1
None == <<>>
Some(x) == <<x>>

\* HRESULT values the program produces itself or receives from the platform
NoErr == [code |-> "S_OK", site |-> "none"]
Err(code, site) == [code |-> code, site |-> site]
\* failure codes a platform call can hand back: a generic failure or the
\* "recreate target" device-loss code
ExtCodes == {"E_FAIL", "D2DERR_RECREATE_TARGET"}

\* widths, heights and thumbnail sizes a caller may pass
\* the sizes the shell asks GetThumbnail for
ThumbSizes == {0, MAX_DIM, MAX_DIM + 1}
\* width/height pairs a direct caller passes: each bound of the valid range,
\* crossed and not crossed, on each axis
DimPairs ==
    {<<1, 1>>, <<MAX_DIM, MAX_DIM>>, <<0, 1>>, <<1, 0>>,
     <<MAX_DIM + 1, 1>>, <<1, MAX_DIM + 1>>}

\* GDI bitmaps handed back to a caller
NoBitmap == [kind |-> "null", w |-> 0, h |-> 0, fill |-> "none"]
Bitmap(kind, w, h, fill) == [kind |-> kind, w |-> w, h |-> h, fill |-> fill]

VARIABLES
    RESOURCES,                  \* thread -> Option<ThreadResources>   (lib.rs:205)
    created,                    \* thread -> number of triples created on it
    svg_data,                   \* provider -> Option<data>            (lib.rs:1085)
    USE_HARDWARE_ACCELERATION,  \* global toggle                       (lib.rs:1383)
    pc,                         \* thread -> position in the running entry point
    frame,                      \* thread -> locals of the running entry point
    out,                        \* what the most recently finished call handed back
    lost,                       \* thread -> triples that were cached when a
                                \*           recreate-target signal was seen
    ncalls,                     \* entry-point calls started so far
    cssIn,                      \* document handed to the CSS preprocessor
    cssOut,                     \* results of the preprocessing runs on cssIn
    pixIn,                      \* mapped staging surface handed to the pixel copy
    pixOut,                     \* what the pixel copy did with pixIn
    interleaved,                \* TRUE: calls on different threads overlap freely
    parser                      \* the locals of a running parse_css_rules

mainVars == <<RESOURCES, created, svg_data, USE_HARDWARE_ACCELERATION,
              pc, frame, out, lost, ncalls>>
cssVars == <<cssIn, cssOut>>
pixVars == <<pixIn, pixOut>>
\* what the steps of the entry points leave alone
sideVars == <<cssIn, cssOut, pixIn, pixOut, interleaved, parser>>
vars == <<RESOURCES, created, svg_data, USE_HARDWARE_ACCELERATION,
          pc, frame, out, lost, ncalls, cssIn, cssOut, pixIn, pixOut,
          interleaved, parser>>

\* ------------------------------------------------------------------------
\* ThreadResources and get_d2d_resources
\* ------------------------------------------------------------------------
\* The triple created by the n-th creation on thread t
ThreadResources_OfOneThread(t, n) ==
    LET o == CHOOSE u \in Threads : TRUE IN
    [d2d_factory |-> <<o, n>>, d2d_device |-> <<o, n>>,
     d2d_context |-> <<o, n>>, poisoned |-> FALSE]
ThreadResources(t, n) ==
    [d2d_factory |-> <<t, n>>, d2d_device |-> <<t, n>>,
     d2d_context |-> <<t, n>>, poisoned |-> FALSE]

\* lib.rs:215  resources_ref.is_none() || resources_ref.unwrap().poisoned
NeedsCreate_IgnorePoison(r) == r = None
NeedsCreate_Always(r) == TRUE
NeedsCreate(r) == r = None \/ r[1].poisoned

\* Outcomes of the platform calls made while creating a triple
\* (the calls after a failing ComGuard or factory creation are never made, and
\* the failure code matters only when some call fails)
CreateEnvs ==
    {e \in [com : BOOLEAN, factory : BOOLEAN, hardware : BOOLEAN, warp : BOOLEAN,
            rest : BOOLEAN, code : ExtCodes] :
        /\ ~e.com => e.factory /\ e.hardware /\ e.warp /\ e.rest
        /\ ~e.factory => e.hardware /\ e.warp /\ e.rest
        /\ (e.com /\ e.factory /\ e.hardware /\ e.warp /\ e.rest)
             => e.code = "E_FAIL"}

\* lib.rs:246-267  the create_d3d_device calls made, in order, each with the
\* driver type asked for and whether the call succeeded
DeviceAttempts(use_hardware, env) ==
    IF use_hardware
    THEN IF env.hardware THEN << [driver |-> "hardware", ok |-> TRUE] >>
         ELSE << [driver |-> "hardware", ok |-> FALSE],
                 [driver |-> "warp", ok |-> env.warp] >>
    ELSE << [driver |-> "warp", ok |-> env.warp] >>

DeviceChoice_HardwareOnly(use_hardware, env) ==
    IF use_hardware
    THEN IF env.hardware THEN "hardware" ELSE "none"
    ELSE IF env.warp THEN "warp" ELSE "none"
\* lib.rs:246-267  which device is created, if any
DeviceChoice(use_hardware, env) ==
    IF use_hardware
    THEN IF env.hardware THEN "hardware"
         ELSE IF env.warp THEN "warp" ELSE "none"
    ELSE IF env.warp THEN "warp" ELSE "none"

\* lib.rs:219-276  the first failing step of a creation, "none" when all succeed
CreateFailure(use_hardware, env) ==
    IF ~env.com THEN "ComGuard"
    ELSE IF ~env.factory THEN "D2D1CreateFactory"
    ELSE IF DeviceChoice(use_hardware, env) = "none" THEN "D3D11CreateDevice"
    ELSE IF ~env.rest THEN "CreateDevice"
    ELSE "none"

\* lib.rs:210-300  result of get_d2d_resources on thread t:
\*   res    the returned triple (None on error), err the error,
\*   cache  the thread's cache afterwards, made whether a triple was created
\*   device the device the triple was built on, attempts the device
\*          creations tried (none when an earlier step failed)
get_d2d_resources(t, env) ==
    LET r == RESOURCES[t] IN
    IF NeedsCreate(r)
    THEN IF CreateFailure(USE_HARDWARE_ACCELERATION, env) # "none"
         THEN [res |-> None,
               err |-> Err(env.code, CreateFailure(USE_HARDWARE_ACCELERATION, env)),
               cache |-> r, made |-> FALSE,
               device |-> "none",
               attempts |-> IF env.com /\ env.factory
                            THEN DeviceAttempts(USE_HARDWARE_ACCELERATION, env)
                            ELSE <<>>]
         ELSE [res |-> Some(ThreadResources(t, created[t] + 1)),
               err |-> NoErr,
               cache |-> Some(ThreadResources(t, created[t] + 1)),
               made |-> TRUE,
               device |-> DeviceChoice(USE_HARDWARE_ACCELERATION, env),
               attempts |-> DeviceAttempts(USE_HARDWARE_ACCELERATION, env)]
    ELSE [res |-> Some([r[1] EXCEPT !.poisoned = FALSE]),
          err |-> NoErr, cache |-> r, made |-> FALSE, device |-> "cached",
          attempts |-> <<>>]

\* lib.rs:341-346 and 1065-1070  poison the cache if there is one
PoisonCache(r) == IF r = None THEN r ELSE Some([r[1] EXCEPT !.poisoned = TRUE])

\* the triples recorded as lost when a recreate-target signal is seen
LostAfterSignal(t) ==
    IF RESOURCES[t] = None THEN lost[t]
    ELSE lost[t] \cup {RESOURCES[t][1].d2d_context}

\* ------------------------------------------------------------------------
\* Entry points and the ffi_guard panic boundary
\* ------------------------------------------------------------------------
\* lib.rs:1488-1817, 1326, 1360, 1107, 1189: the macro arm wrapping each entry
\* point; render_svg_to_hbitmap (lib.rs:805) is public and has no guard
GuardKind(e) ==
    CASE e = "DllMain" -> "BOOL"
      [] e \in {"DllGetClassObject", "DllCanUnloadNow", "DllRegisterServer",
                "DllUnregisterServer", "notify_shell_change"} -> "HRESULT"
      [] e \in {"CreateInstance", "LockServer", "Initialize", "GetThumbnail"} -> "Result"
      [] OTHER -> "none"

SimpleEntries == {"DllMain", "DllGetClassObject", "DllCanUnloadNow",
                  "DllRegisterServer", "DllUnregisterServer",
                  "notify_shell_change", "CreateInstance", "LockServer"}
EntryPoints == SimpleEntries \cup {"Initialize", "GetThumbnail", "render_svg_to_hbitmap"}

\* lib.rs:70-116  what ffi_guard hands back when the body panicked
PanicValue(kind) ==
    CASE kind = "BOOL" -> Err("FALSE", "ffi_guard")
      [] OTHER -> Err("E_FAIL", "ffi_guard")

TakeCache_Kept(r) == r
\* lib.rs:78-80  the cache after a caught panic: resources.borrow_mut().take()
TakeCache(r) == None

\* lib.rs:119-146  HBitmapGuard holds one handle ("null" once released);
\* release hands the handle out and nulls the guard's copy before the guard
\* is dropped, drop calls DeleteObject on a handle that is not null
HBitmapGuard_new(handle) == handle
HBitmapGuard_release_KeepsHandle(guard) == [handle |-> guard, guard |-> guard]
HBitmapGuard_release(guard) == [handle |-> guard, guard |-> "null"]
HBitmapGuard_drop(guard) == IF guard # "null" THEN 1 ELSE 0

\* The ledger of one GDI bitmap: whether CreateDIBSection made it, how many
\* DeleteObject calls it received and how often it was handed to the caller
NoGdi == [made |-> FALSE, deleted |-> 0, returned |-> 0]
\* `guard` leaves scope without having been released (error return or unwinding)
GdiDropped(g, guard) == [g EXCEPT !.deleted = @ + HBitmapGuard_drop(guard)]
\* Ok(hbitmap_guard.release()): the handle goes to the caller, then the
\* consumed guard is dropped
GdiReleased(g, guard) ==
    LET r == HBitmapGuard_release(guard) IN
    [g EXCEPT !.returned = @ + (IF r.handle # "null" THEN 1 ELSE 0),
              !.deleted = @ + HBitmapGuard_drop(r.guard)]

\* What the caller of an entry point observes
\*   hr       the returned code (NoErr on success)
\*   panic    TRUE when a panic unwound out of the entry point into the caller
\*   caught   TRUE when ffi_guard caught a panic
\*   phbmp, pdwalpha   the bitmap handed back and GetThumbnail's alpha type
\*   renderErr, fallbackErr   the errors of the render and of the fallback
\*                            inside GetThumbnail (NoErr when not failed)
\*   fellBack TRUE when create_fallback_thumbnail was called
\*   touched  TRUE when a direct render reached get_d2d_resources
\*   stream, stored   Initialize's stream and whether the call stored data
\*   dib      how CreateDIBSection ended in the last resort ("none": not called)
\*   gdi      the ledger of the GDI bitmap the call created last
Outcome(e, p, w, h, hr, bmp, alpha) ==
    [entry |-> e, prov |-> p, w |-> w, h |-> h, hr |-> hr,
     panic |-> FALSE, caught |-> FALSE, phbmp |-> bmp, pdwalpha |-> alpha,
     renderErr |-> NoErr, fallbackErr |-> NoErr, fellBack |-> FALSE,
     touched |-> FALSE, stream |-> 0, stored |-> FALSE,
     dib |-> "none", thread |-> "none", gdi |-> NoGdi]
NoOut == Outcome("none", "none", 0, 0, NoErr, NoBitmap, "WTSAT_UNKNOWN")

\* Locals of a running entry point
IdleFrame ==
    [entry |-> "none", prov |-> "none", w |-> 0, h |-> 0, phase |-> "none",
     gz |-> FALSE, stream |-> 0, touched |-> FALSE, cache0 |-> None,
     res |-> None, made |-> FALSE, drawing |-> FALSE, blockErr |-> NoErr,
     final |-> "none", err |-> NoErr, bmp |-> NoBitmap, mainErr |-> NoErr,
     hbitmap_guard |-> "null", gdi |-> NoGdi, endDrawLost |-> FALSE,
     data_guard |-> "none", device |-> "none", attempts |-> <<>>,
     begin_draws |-> 0, end_draws |-> 0]

\* ------------------------------------------------------------------------
\* Small helpers over the per-thread state
\* ------------------------------------------------------------------------
Idle(t) == pc[t] = "idle"
\* Calls on different threads share only the providers' data and the
\* acceleration toggle, each touched in one atomic step; every other step is
\* thread-local and commutes with the other threads' steps. So calls are
\* explored one at a time, except that Initialize calls overlap each other
\* (their check of the data and their store are separate steps).
\* Before the first call the threads are interchangeable, so the first call
\* is explored on one of them only.
OthersQuiet(t, entries) ==
    \A u \in Threads \ {t} :
        pc[u] \in {"idle", "dead"} \/ frame[u].entry \in entries
FirstThread == CHOOSE t \in Threads : TRUE
MayCall(t) ==
    /\ Idle(t)
    /\ ncalls < (IF interleaved THEN MaxParCalls ELSE MaxCalls)
    /\ ncalls = 0 => t = FirstThread
CanStart(t) == MayCall(t) /\ (interleaved \/ OthersQuiet(t, {}))
CanStartInitialize(t) ==
    MayCall(t) /\ (interleaved \/ OthersQuiet(t, {"Initialize"}))

\* The provider's svg_data mutex. `data_guard` in a thread's locals names the
\* provider whose mutex the thread holds ("none": it holds no guard).
\* lib.rs:1112, 1172, 1201  lock() waits while another thread holds the mutex
MutexFree(t, p) == \A u \in Threads \ {t} : frame[u].data_guard # p
\* lib.rs:1201  let data_guard = self.svg_data.lock()
svg_data_lock(f) == [f EXCEPT !.data_guard = f.prov]
data_guard_drop_AfterRender(f) == f
\* lib.rs:1214  the block that owns data_guard ends
data_guard_drop(f) == [f EXCEPT !.data_guard = "none"]

\* a thread finishes its entry point and hands `o` to its caller
Finish(t, o) ==
    /\ out' = [o EXCEPT !.thread = t]
    /\ pc' = [pc EXCEPT ![t] = IF o.panic THEN "dead" ELSE "idle"]
    /\ frame' = [frame EXCEPT ![t] = IdleFrame]

\* lib.rs:329-332  D2D1DrawGuard::new calls BeginDraw; begin_draws and
\* end_draws count the render's BeginDraw and EndDraw calls
D2D1DrawGuard_new(f) == [f EXCEPT !.drawing = TRUE, !.begin_draws = @ + 1]
D2D1DrawGuard_drop_NoEndDraw(f) == [f EXCEPT !.drawing = FALSE]
\* lib.rs:335-338  D2D1DrawGuard::drop calls EndDraw
D2D1DrawGuard_drop(f) == [f EXCEPT !.drawing = FALSE, !.end_draws = @ + 1]

\* a render_svg_to_hbitmap invocation starts on thread t (locals reset)
EnterRender(f, t, phase) ==
    [f EXCEPT !.phase = phase, !.touched = FALSE, !.cache0 = RESOURCES[t],
              !.res = None, !.made = FALSE, !.drawing = FALSE,
              !.blockErr = NoErr, !.final = "none", !.err = NoErr,
              !.bmp = NoBitmap, !.hbitmap_guard = "null", !.gdi = NoGdi,
              !.endDrawLost = FALSE, !.device = "none", !.attempts = <<>>,
              !.begin_draws = 0, !.end_draws = 0]

\* lib.rs:1058  the closure of render_svg_to_hbitmap ends: its locals are
\* dropped and only its result `err` / `bmp` is left
Closed(f, err, bmp) ==
    [f EXCEPT !.res = None, !.made = FALSE, !.final = "none", !.gz = FALSE,
              !.blockErr = NoErr, !.drawing = FALSE, !.err = err, !.bmp = bmp,
              !.hbitmap_guard = "null"]

\* a platform call either succeeds or fails with one of ExtCodes
ExtOutcomes == {"ok"} \cup ExtCodes

\* ------------------------------------------------------------------------
\* render_svg_to_hbitmap, step by step (lib.rs:805-1077)
\* ------------------------------------------------------------------------
\* lib.rs:812  the early validation of the requested size
InvalidDims_NoUpperBound(w, h) == w = 0 \/ h = 0
InvalidDims(w, h) == w = 0 \/ h = 0 \/ w > MAX_DIM \/ h > MAX_DIM

\* lib.rs:50 of Testing/src/main.rs: the test program calls the public
\* render_svg_to_hbitmap directly, with no ffi_guard around it
StartRender(t) ==
    /\ CanStart(t)
    /\ \E d \in DimPairs, gz \in BOOLEAN :
         frame' = [frame EXCEPT ![t] =
                     EnterRender([IdleFrame EXCEPT !.entry = "render_svg_to_hbitmap",
                                                   !.w = d[1], !.h = d[2], !.gz = gz],
                                 t, "main")]
    /\ pc' = [pc EXCEPT ![t] = "validate"]
    /\ out' = NoOut
    /\ ncalls' = ncalls + 1
    /\ UNCHANGED <<RESOURCES, created, svg_data, USE_HARDWARE_ACCELERATION, lost>>
    /\ UNCHANGED sideVars

\* lib.rs:811-815
Validate(t) ==
    /\ pc[t] = "validate"
    /\ IF InvalidDims(frame[t].w, frame[t].h)
       THEN /\ frame' = [frame EXCEPT ![t] =
                           Closed(@, Err("E_INVALIDARG", "validate"), NoBitmap)]
            /\ pc' = [pc EXCEPT ![t] = "post"]
       ELSE /\ frame' = frame
            /\ pc' = [pc EXCEPT ![t] = "get"]
    /\ UNCHANGED <<RESOURCES, created, svg_data, USE_HARDWARE_ACCELERATION,
                   out, lost, ncalls>>
    /\ UNCHANGED sideVars

\* lib.rs:819  let (..) = get_d2d_resources()?
GetResources(t) ==
    /\ pc[t] = "get"
    /\ \E env \in CreateEnvs :
         LET g == get_d2d_resources(t, env) IN
         /\ RESOURCES' = [RESOURCES EXCEPT ![t] = g.cache]
         /\ created' = [created EXCEPT ![t] = IF g.made THEN @ + 1 ELSE @]
         /\ frame' = [frame EXCEPT ![t] =
                        IF g.err = NoErr
                        THEN [@ EXCEPT !.touched = TRUE, !.res = g.res,
                                       !.made = g.made, !.device = g.device,
                                       !.attempts = g.attempts]
                        ELSE Closed([@ EXCEPT !.touched = TRUE,
                                              !.device = g.device,
                                              !.attempts = g.attempts],
                                    g.err, NoBitmap)]
         /\ pc' = [pc EXCEPT ![t] = IF g.err = NoErr THEN "create_rt" ELSE "post"]
    /\ UNCHANGED <<svg_data, USE_HARDWARE_ACCELERATION, out, lost, ncalls>>
    /\ UNCHANGED sideVars

\* lib.rs:830  CreateBitmap for the render target
CreateRenderTarget(t) ==
    /\ pc[t] = "create_rt"
    /\ \E o \in ExtOutcomes :
         IF o = "ok"
         THEN /\ frame' = frame
              /\ pc' = [pc EXCEPT ![t] = "draw"]
         ELSE /\ frame' = [frame EXCEPT ![t] =
                             Closed(@, Err(o, "pipeline"), NoBitmap)]
              /\ pc' = [pc EXCEPT ![t] = "post"]
    /\ UNCHANGED <<RESOURCES, created, svg_data, USE_HARDWARE_ACCELERATION,
                   out, lost, ncalls>>
    /\ UNCHANGED sideVars

\* lib.rs:841-866  the errors CSS preprocessing can return with `?`: none for
\* gzip-compressed data, whose preprocessing is skipped
CssOutcomes(gz) == IF gz THEN {"ok"} ELSE ExtOutcomes

\* lib.rs:833-932  BeginDraw, Clear, CSS preprocessing, CreateSvgDocument,
\* DrawSvgDocument; an error leaves the block with `?` while the guard is alive
DrawBlock(t) ==
    /\ pc[t] = "draw"
    /\ \E css \in CssOutcomes(frame[t].gz), doc \in ExtOutcomes :
         frame' = [frame EXCEPT ![t] =
                     [D2D1DrawGuard_new(@) EXCEPT
                        !.blockErr = IF css # "ok" THEN Err(css, "css")
                                     ELSE IF doc # "ok" THEN Err(doc, "pipeline")
                                     ELSE NoErr]]
    /\ pc' = [pc EXCEPT ![t] = "end_draw1"]
    /\ UNCHANGED <<RESOURCES, created, svg_data, USE_HARDWARE_ACCELERATION,
                   out, lost, ncalls>>
    /\ UNCHANGED sideVars

\* lib.rs:335-350  D2D1DrawGuard::drop: EndDraw, poisoning on recreate-target;
\* the result itself is dropped
EndDrawCache(r, o) == IF o = "D2DERR_RECREATE_TARGET" THEN PoisonCache(r) ELSE r
\* lib.rs:338  the render's record that one of its EndDraw calls returned the
\* recreate-target code
EndDrawSeen(f, o) ==
    [f EXCEPT !.endDrawLost = @ \/ o = "D2DERR_RECREATE_TARGET"]
DrawGuardDrop(t, o) ==
    /\ RESOURCES' = [RESOURCES EXCEPT ![t] = EndDrawCache(@, o)]
    /\ lost' = [lost EXCEPT ![t] =
                  IF o = "D2DERR_RECREATE_TARGET" THEN LostAfterSignal(t) ELSE @]

\* lib.rs:933  the end of the first draw block
EndDraw1(t) ==
    /\ pc[t] = "end_draw1"
    /\ \E o \in ExtOutcomes :
         /\ DrawGuardDrop(t, o)
         /\ IF frame[t].blockErr # NoErr
            THEN /\ frame' = [frame EXCEPT ![t] =
                                Closed(D2D1DrawGuard_drop(EndDrawSeen(@, o)),
                                       frame[t].blockErr, NoBitmap)]
                 /\ pc' = [pc EXCEPT ![t] = "post"]
            ELSE /\ frame' = [frame EXCEPT ![t] =
                                D2D1DrawGuard_drop(EndDrawSeen(@, o))]
                 /\ pc' = [pc EXCEPT ![t] = "effect"]
    /\ UNCHANGED <<created, svg_data, USE_HARDWARE_ACCELERATION, out, ncalls>>
    /\ UNCHANGED sideVars

\* lib.rs:938-975  CreateEffect; on success a second target bitmap and a second
\* draw block in which the effect is drawn only if its cast to an image works
Effect(t) ==
    /\ pc[t] = "effect"
    /\ \E effect \in BOOLEAN, o \in ExtOutcomes, cast \in BOOLEAN :
         IF ~effect
         THEN /\ frame' = [frame EXCEPT ![t].final = "render_target_bitmap"]
              /\ pc' = [pc EXCEPT ![t] = "staging"]
         ELSE IF o # "ok"
         THEN /\ frame' = [frame EXCEPT ![t] =
                             Closed(@, Err(o, "pipeline"), NoBitmap)]
              /\ pc' = [pc EXCEPT ![t] = "post"]
         ELSE /\ frame' = [frame EXCEPT ![t] =
                              [D2D1DrawGuard_new(@) EXCEPT
                                 !.final = IF cast THEN "output_bitmap"
                                           ELSE "output_bitmap_undrawn"]]
              /\ pc' = [pc EXCEPT ![t] = "end_draw2"]
    /\ UNCHANGED <<RESOURCES, created, svg_data, USE_HARDWARE_ACCELERATION,
                   out, lost, ncalls>>
    /\ UNCHANGED sideVars

\* lib.rs:963  the end of the effect's draw block
EndDraw2(t) ==
    /\ pc[t] = "end_draw2"
    /\ \E o \in ExtOutcomes :
         /\ DrawGuardDrop(t, o)
         /\ frame' = [frame EXCEPT ![t] = D2D1DrawGuard_drop(EndDrawSeen(@, o))]
    /\ pc' = [pc EXCEPT ![t] = "staging"]
    /\ UNCHANGED <<created, svg_data, USE_HARDWARE_ACCELERATION, out, ncalls>>
    /\ UNCHANGED sideVars

\* lib.rs:985-1004  staging bitmap, CopyFromBitmap, Map, CreateDIBSection
Staging(t) ==
    /\ pc[t] = "staging"
    /\ \E o \in ExtOutcomes :
         IF o = "ok"
         THEN /\ frame' = [frame EXCEPT
                            ![t].hbitmap_guard = HBitmapGuard_new("hbitmap"),
                            ![t].gdi = [NoGdi EXCEPT !.made = TRUE]]
              /\ pc' = [pc EXCEPT ![t] = "copy"]
         ELSE /\ frame' = [frame EXCEPT ![t] =
                             Closed(@, Err(o, "pipeline"), NoBitmap)]
              /\ pc' = [pc EXCEPT ![t] = "post"]
    /\ UNCHANGED <<RESOURCES, created, svg_data, USE_HARDWARE_ACCELERATION,
                   out, lost, ncalls>>
    /\ UNCHANGED sideVars

\* lib.rs:1008-1057  the size check on pitch * height, the pixel copy and the
\* release of the bitmap to the caller; `fits` is whether the mapped size fits
\* the platform's usize
CopyPixels(t) ==
    /\ pc[t] = "copy"
    /\ \E fits \in BOOLEAN :
         IF fits
         THEN frame' = [frame EXCEPT ![t] =
                          Closed([@ EXCEPT !.gdi = GdiReleased(@, frame[t].hbitmap_guard)],
                                 NoErr,
                                 Bitmap(IF frame[t].phase = "fallback"
                                        THEN "placeholder" ELSE "rendered",
                                        frame[t].w, frame[t].h, frame[t].final))]
         ELSE frame' = [frame EXCEPT ![t] =
                          Closed([@ EXCEPT !.gdi = GdiDropped(@, frame[t].hbitmap_guard)],
                                 Err("E_FAIL", "pipeline"), NoBitmap)]
    /\ pc' = [pc EXCEPT ![t] = "post"]
    /\ UNCHANGED <<RESOURCES, created, svg_data, USE_HARDWARE_ACCELERATION,
                   out, lost, ncalls>>
    /\ UNCHANGED sideVars

\* lib.rs:1060-1076  after the closure: poison on an error carrying the
\* recreate-target code, then return the closure's result
PostRender(t) ==
    /\ pc[t] = "post"
    /\ IF frame[t].err.code = "D2DERR_RECREATE_TARGET"
       THEN /\ RESOURCES' = [RESOURCES EXCEPT ![t] = PoisonCache(@)]
            /\ lost' = [lost EXCEPT ![t] = LostAfterSignal(t)]
            /\ frame' = [frame EXCEPT ![t].touched =
                            @ \/ RESOURCES'[t] # RESOURCES[t]]
       ELSE /\ UNCHANGED <<RESOURCES, lost>>
            /\ frame' = frame
    /\ pc' = [pc EXCEPT ![t] = "ret"]
    /\ UNCHANGED <<created, svg_data, USE_HARDWARE_ACCELERATION, out, ncalls>>
    /\ UNCHANGED sideVars

\* the direct caller (Testing/src/main.rs:50) receives the result
RenderReturn(t) ==
    /\ pc[t] = "ret"
    /\ frame[t].entry = "render_svg_to_hbitmap"
    /\ Finish(t, [Outcome("render_svg_to_hbitmap", "none", frame[t].w, frame[t].h,
                          frame[t].err, frame[t].bmp, "WTSAT_UNKNOWN")
                  EXCEPT !.touched = frame[t].touched, !.renderErr = frame[t].err,
                         !.gdi = frame[t].gdi])
    /\ UNCHANGED <<RESOURCES, created, svg_data, USE_HARDWARE_ACCELERATION,
                   lost, ncalls>>
    /\ UNCHANGED sideVars

\* ------------------------------------------------------------------------
\* ThumbnailProvider::GetThumbnail and create_fallback_thumbnail
\* ------------------------------------------------------------------------
\* lib.rs:1189-1198  entry; the out parameters start as null / WTSAT_UNKNOWN
StartGetThumbnail(t) ==
    /\ CanStart(t)
    /\ \E p \in Providers, cx \in ThumbSizes :
         frame' = [frame EXCEPT ![t] =
                     [IdleFrame EXCEPT !.entry = "GetThumbnail", !.prov = p,
                                       !.w = cx, !.h = cx]]
    /\ pc' = [pc EXCEPT ![t] = "gt_lock"]
    /\ out' = NoOut
    /\ ncalls' = ncalls + 1
    /\ UNCHANGED <<RESOURCES, created, svg_data, USE_HARDWARE_ACCELERATION, lost>>
    /\ UNCHANGED sideVars

\* lib.rs:1201-1216  lock svg_data, clone the Arc or fail, unlock, call render
GetThumbnailLock(t) ==
    /\ pc[t] = "gt_lock"
    /\ MutexFree(t, frame[t].prov)
    /\ LET f == svg_data_lock(frame[t]) IN
       IF svg_data[f.prov] = None
       THEN Finish(t, Outcome("GetThumbnail", f.prov, f.w, f.h,
                              Err("E_UNEXPECTED", "GetThumbnail"),
                              NoBitmap, "WTSAT_UNKNOWN"))
       ELSE /\ frame' = [frame EXCEPT ![t] =
                           EnterRender(data_guard_drop(
                                           [f EXCEPT !.gz = svg_data[f.prov][1].gz]),
                                       t, "main")]
            /\ pc' = [pc EXCEPT ![t] = "validate"]
            /\ out' = out
    /\ UNCHANGED <<RESOURCES, created, svg_data, USE_HARDWARE_ACCELERATION,
                   lost, ncalls>>
    /\ UNCHANGED sideVars

\* lib.rs:1216-1230  match on the render result: success hands the bitmap
\* out, an error calls create_fallback_thumbnail(cx), which renders the
\* uncompressed FALLBACK_SVG (lib.rs:1255-1258)
GetThumbnailMatch(t) ==
    /\ pc[t] = "ret"
    /\ frame[t].entry = "GetThumbnail"
    /\ frame[t].phase = "main"
    /\ LET f == frame[t] IN
       IF f.err = NoErr
       THEN Finish(t, [Outcome("GetThumbnail", f.prov, f.w, f.h, NoErr,
                               f.bmp, "WTSAT_ARGB")
                       EXCEPT !.gdi = f.gdi])
       ELSE /\ frame' = [frame EXCEPT ![t] =
                           EnterRender([f EXCEPT !.mainErr = f.err, !.gz = FALSE],
                                       t, "fallback")]
            /\ pc' = [pc EXCEPT ![t] = "validate"]
            /\ out' = out
    /\ UNCHANGED <<RESOURCES, created, svg_data, USE_HARDWARE_ACCELERATION,
                   lost, ncalls>>
    /\ UNCHANGED sideVars

\* lib.rs:1279-1282  CreateDIBSection in the last resort: it fails, or
\* succeeds with or without a pointer to the pixels
DibOutcomes == {"ok", "ok_null", "E_OUTOFMEMORY"}

\* lib.rs:1265-1297  the last resort of create_fallback_thumbnail: the error
\* (NoErr on success) and the bitmap it returns
LastResort_Unfilled(size, o) ==
    [err |-> NoErr, bmp |-> Bitmap("solid", size, size, "unfilled"),
     gdi |-> GdiReleased([NoGdi EXCEPT !.made = TRUE],
                         HBitmapGuard_new("hbitmap"))]
LastResort(size, o) ==
    IF o \notin {"ok", "ok_null"}
    THEN [err |-> Err(o, "last_resort"), bmp |-> NoBitmap, gdi |-> NoGdi]
    ELSE [err |-> NoErr,
          bmp |-> Bitmap("solid", size, size,
                         IF o = "ok" THEN "0xFF000000" ELSE "unfilled"),
          gdi |-> GdiReleased([NoGdi EXCEPT !.made = TRUE],
                              HBitmapGuard_new("hbitmap"))]

\* lib.rs:1230-1244  the match on create_fallback_thumbnail's result: its
\* bitmap with success, or the original render error
FallbackResult_PropagateRenderErr(f, r) ==
    [Outcome("GetThumbnail", f.prov, f.w, f.h, f.mainErr, NoBitmap,
             "WTSAT_UNKNOWN")
     EXCEPT !.renderErr = f.mainErr, !.fallbackErr = r.err, !.fellBack = TRUE]
FallbackResult_ReturnFallbackErr(f, r) ==
    [Outcome("GetThumbnail", f.prov, f.w, f.h, r.err, r.bmp,
             IF r.err = NoErr THEN "WTSAT_ARGB" ELSE "WTSAT_UNKNOWN")
     EXCEPT !.renderErr = f.mainErr, !.fallbackErr = r.err, !.fellBack = TRUE]
FallbackResult_AlphaUnset(f, r) ==
    [Outcome("GetThumbnail", f.prov, f.w, f.h,
             IF r.err = NoErr THEN NoErr ELSE f.mainErr, r.bmp, "WTSAT_UNKNOWN")
     EXCEPT !.renderErr = f.mainErr, !.fallbackErr = r.err, !.fellBack = TRUE]
FallbackResult(f, r) ==
    IF r.err = NoErr
    THEN [Outcome("GetThumbnail", f.prov, f.w, f.h, NoErr, r.bmp, "WTSAT_ARGB")
          EXCEPT !.renderErr = f.mainErr, !.fellBack = TRUE]
    ELSE [Outcome("GetThumbnail", f.prov, f.w, f.h, f.mainErr, NoBitmap,
                  "WTSAT_UNKNOWN")
          EXCEPT !.renderErr = f.mainErr, !.fallbackErr = r.err,
                 !.fellBack = TRUE]

\* lib.rs:1258-1264 and 1231-1237  the placeholder render returned
FallbackMatch(t) ==
    /\ pc[t] = "ret"
    /\ frame[t].entry = "GetThumbnail"
    /\ frame[t].phase = "fallback"
    /\ LET f == frame[t] IN
       IF f.err = NoErr
       THEN Finish(t, [FallbackResult(f, [err |-> NoErr, bmp |-> f.bmp])
                       EXCEPT !.gdi = f.gdi])
       ELSE /\ frame' = frame
            /\ pc' = [pc EXCEPT ![t] = "last_resort"]
            /\ out' = out
    /\ UNCHANGED <<RESOURCES, created, svg_data, USE_HARDWARE_ACCELERATION,
                   lost, ncalls>>
    /\ UNCHANGED sideVars

LastResortStep(t) ==
    /\ pc[t] = "last_resort"
    /\ \E o \in DibOutcomes :
         Finish(t, [FallbackResult(frame[t], LastResort(frame[t].w, o))
                    EXCEPT !.dib = o, !.gdi = LastResort(frame[t].w, o).gdi])
    /\ UNCHANGED <<RESOURCES, created, svg_data, USE_HARDWARE_ACCELERATION,
                   lost, ncalls>>
    /\ UNCHANGED sideVars

\* ------------------------------------------------------------------------
\* ThumbnailProvider::Initialize (lib.rs:1107-1184)
\* ------------------------------------------------------------------------
\* An input stream: stat is the size Stat reports (-1 when Stat fails), segs
\* the reads it then serves, each segment being k consecutive reads returning
\* n bytes (ok = FALSE: the read fails); after the last segment it is at its end
Seg(n, k, ok) == [n |-> n, k |-> k, ok |-> ok]
Streams ==
    << [null |-> TRUE,  stat |-> 0, segs |-> <<>>, gz |-> FALSE],
       [null |-> FALSE, stat |-> MAX_SIZE + 1, segs |-> <<Seg(4, 1, TRUE)>>, gz |-> FALSE],
       [null |-> FALSE, stat |-> 4, segs |-> <<Seg(4, 1, TRUE)>>, gz |-> FALSE],
       [null |-> FALSE, stat |-> -1,
        segs |-> <<Seg(CHUNK_LEN, 1616, TRUE), Seg(1, 1, TRUE)>>, gz |-> FALSE],
       [null |-> FALSE, stat |-> 0, segs |-> <<Seg(CHUNK_LEN, 1616, TRUE)>>, gz |-> TRUE],
       [null |-> FALSE, stat |-> 4,
        segs |-> <<Seg(2, 1, TRUE), Seg(1, 1, FALSE), Seg(1, 1, TRUE)>>, gz |-> FALSE],
       [null |-> FALSE, stat |-> 4, segs |-> <<Seg(CHUNK_LEN, 1617, TRUE)>>, gz |-> FALSE] >>

\* the bytes a stream serves before its end or its first failing read
RECURSIVE Delivered(_)
Delivered(segs) ==
    IF segs = <<>> \/ ~Head(segs).ok \/ Head(segs).n = 0 THEN 0
    ELSE Head(segs).n * Head(segs).k + Delivered(Tail(segs))

\* lib.rs:1143-1167  the chunked read loop from a buffer of `len` bytes: a
\* failing or empty read ends it, a read that would pass MAX_SIZE is an error.
\* The k equal reads of a segment pass the size test together exactly when the
\* last of them does.
RECURSIVE ReadLoop_NoCap(_, _)
ReadLoop_NoCap(len, segs) ==
    IF segs = <<>> \/ ~Head(segs).ok \/ Head(segs).n = 0
    THEN [err |-> NoErr, len |-> len]
    ELSE ReadLoop_NoCap(len + Head(segs).n * Head(segs).k, Tail(segs))
RECURSIVE ReadLoop(_, _)
ReadLoop(len, segs) ==
    IF segs = <<>> \/ ~Head(segs).ok \/ Head(segs).n = 0
    THEN [err |-> NoErr, len |-> len]
    ELSE IF len + Head(segs).n * Head(segs).k > MAX_SIZE
    THEN [err |-> Err("ERROR_FILE_TOO_LARGE", "Initialize"), len |-> len]
    ELSE ReadLoop(len + Head(segs).n * Head(segs).k, Tail(segs))

\* lib.rs:1117-1181  Initialize after the already-initialized test: the
\* error it returns (NoErr on success) and the data it stores
ReadStream(s) ==
    IF s.null THEN [err |-> Err("E_INVALIDARG", "Initialize"), data |-> None]
    ELSE IF s.stat >= 0 /\ s.stat > 0 /\ s.stat > MAX_SIZE
    THEN [err |-> Err("ERROR_FILE_TOO_LARGE", "Initialize"), data |-> None]
    ELSE LET r == ReadLoop(0, s.segs) IN
         IF r.err # NoErr THEN [err |-> r.err, data |-> None]
         ELSE [err |-> NoErr, data |-> Some([len |-> r.len, gz |-> s.gz])]

StartInitialize(t) ==
    /\ CanStartInitialize(t)
    /\ \E p \in Providers, i \in 1..Len(Streams) :
         frame' = [frame EXCEPT ![t] =
                     [IdleFrame EXCEPT !.entry = "Initialize", !.prov = p,
                                       !.stream = i]]
    /\ pc' = [pc EXCEPT ![t] = "init_check"]
    /\ out' = NoOut
    /\ ncalls' = ncalls + 1
    /\ UNCHANGED <<RESOURCES, created, svg_data, USE_HARDWARE_ACCELERATION, lost>>
    /\ UNCHANGED sideVars

\* lib.rs:1111-1115  the guard against repeated initialization
InitializeCheck(t) ==
    /\ pc[t] = "init_check"
    /\ MutexFree(t, frame[t].prov)
    /\ LET f == frame[t] IN
       IF svg_data[f.prov] # None
       THEN Finish(t, [Outcome("Initialize", f.prov, 0, 0,
                               Err("ERROR_ALREADY_INITIALIZED", "Initialize"),
                               NoBitmap, "WTSAT_UNKNOWN")
                       EXCEPT !.stream = f.stream])
       ELSE /\ pc' = [pc EXCEPT ![t] = "init_read"]
            /\ UNCHANGED <<frame, out>>
    /\ UNCHANGED <<RESOURCES, created, svg_data, USE_HARDWARE_ACCELERATION,
                   lost, ncalls>>
    /\ UNCHANGED sideVars

\* lib.rs:1117-1181  read the stream and store the data
InitializeRead(t) ==
    /\ pc[t] = "init_read"
    /\ MutexFree(t, frame[t].prov)
    /\ LET f == frame[t]
           r == ReadStream(Streams[f.stream]) IN
       /\ svg_data' = [svg_data EXCEPT ![f.prov] =
                         IF r.err = NoErr THEN r.data ELSE @]
       /\ Finish(t, [Outcome("Initialize", f.prov, 0, 0, r.err,
                              NoBitmap, "WTSAT_UNKNOWN")
                      EXCEPT !.stream = f.stream, !.stored = (r.err = NoErr)])
    /\ UNCHANGED <<RESOURCES, created, USE_HARDWARE_ACCELERATION, lost, ncalls>>
    /\ UNCHANGED sideVars

\* ------------------------------------------------------------------------
\* The other exported entry points (lib.rs:1326-1372, 1488-1566, 1775-1817)
\* ------------------------------------------------------------------------
\* Each runs its body under ffi_guard. DllMain and DllGetClassObject re-read
\* the hardware-acceleration toggle from the registry (lib.rs:1495, 1513);
\* `body` is how the body ended and `hw` the registry's value.
\* With overlapping calls one of them, DllCanUnloadNow, stands for all: they
\* differ in the returned value only, and in the toggle, which no other thread
\* reads but in get_d2d_resources.
CallableEntries == IF interleaved THEN {"DllCanUnloadNow"} ELSE SimpleEntries
SimpleEntry(t) ==
    /\ CanStart(t)
    /\ \E e \in CallableEntries, body \in {"ok", "err", "panic"}, hw \in BOOLEAN :
         /\ e \in {"DllMain", "DllGetClassObject"} \/ hw = USE_HARDWARE_ACCELERATION
         /\ USE_HARDWARE_ACCELERATION' =
               IF e \in {"DllMain", "DllGetClassObject"}
               THEN hw ELSE USE_HARDWARE_ACCELERATION
         /\ RESOURCES' = [RESOURCES EXCEPT ![t] =
               IF body = "panic" /\ GuardKind(e) # "none" THEN TakeCache(@) ELSE @]
         /\ Finish(t, [Outcome(e, "none", 0, 0,
                               CASE body = "ok" -> NoErr
                                 [] body = "err" -> Err("E_FAIL", e)
                                 [] OTHER -> PanicValue(GuardKind(e)),
                               NoBitmap, "WTSAT_UNKNOWN")
                        EXCEPT !.caught = (body = "panic" /\ GuardKind(e) # "none"),
                               !.panic = (body = "panic" /\ GuardKind(e) = "none")])
    /\ ncalls' = ncalls + 1
    /\ UNCHANGED <<created, svg_data, lost>>
    /\ UNCHANGED sideVars

\* ------------------------------------------------------------------------
\* A panic inside a running body
\* ------------------------------------------------------------------------
\* positions at which the body is calling into the platform
PanicPcs == {"get", "create_rt", "draw", "end_draw1", "effect", "end_draw2",
             "staging", "copy", "last_resort", "init_read"}

\* The stack unwinds: a live HBitmapGuard deletes its bitmap (lib.rs:136-146;
\* in the last resort the panic comes before or after the guard exists), a
\* live D2D1DrawGuard runs EndDraw (lib.rs:335-350), then
\* ffi_guard, if the entry point has one, empties the cache and returns the
\* failure value (lib.rs:77-83); without a guard the panic reaches the caller.
Panic(t) ==
    /\ pc[t] \in PanicPcs
    /\ LET f == frame[t]
           guarded == GuardKind(f.entry) # "none" IN
       /\ \E o \in ExtOutcomes :
            /\ f.drawing \/ o = "ok"
            /\ RESOURCES' = [RESOURCES EXCEPT ![t] =
                  IF guarded THEN TakeCache(EndDrawCache(@, o))
                  ELSE EndDrawCache(@, o)]
            /\ lost' = [lost EXCEPT ![t] =
                  IF o = "D2DERR_RECREATE_TARGET" THEN LostAfterSignal(t) ELSE @]
       /\ \E held \in BOOLEAN :
            /\ pc[t] = "last_resort" \/ held = (f.hbitmap_guard # "null")
            /\ Finish(t, [Outcome(f.entry, f.prov, f.w, f.h,
                                  IF guarded THEN PanicValue(GuardKind(f.entry))
                                  ELSE Err("panic", "unwind"),
                                  NoBitmap, "WTSAT_UNKNOWN")
                           EXCEPT !.caught = guarded, !.panic = ~guarded,
                                  !.stream = f.stream,
                                  !.gdi = IF pc[t] = "last_resort"
                                          THEN IF held
                                               THEN GdiDropped([NoGdi EXCEPT !.made = TRUE],
                                                               HBitmapGuard_new("hbitmap"))
                                               ELSE NoGdi
                                          ELSE GdiDropped(f.gdi, f.hbitmap_guard)])
    /\ UNCHANGED <<created, svg_data, USE_HARDWARE_ACCELERATION, ncalls>>
    /\ UNCHANGED sideVars

\* ------------------------------------------------------------------------
\* Text: a string is the sequence of its characters
\* ------------------------------------------------------------------------
Letters == {"a", "b", "c", "d", "e", "f", "g", "h", "i", "j", "k", "l", "m",
            "n", "o", "p", "q", "r", "s", "t", "u", "v", "w", "x", "y", "z",
            "A", "B", "C", "D", "E", "F", "G", "H", "I", "J", "K", "L", "M",
            "N", "O", "P", "Q", "R", "S", "T", "U", "V", "W", "X", "Y", "Z"}
Digits == {"0", "1", "2", "3", "4", "5", "6", "7", "8", "9"}
Whitespace == {" ", "\n", "\t"}

starts_with(s, p) == Len(s) >= Len(p) /\ SubSeq(s, 1, Len(p)) = p
ends_with(s, p) == Len(s) >= Len(p) /\ SubSeq(s, Len(s) - Len(p) + 1, Len(s)) = p

\* str::find: the first position at or after i where p occurs in s, 0 if none
find(s, p, i) ==
    LET last == Len(s) - Len(p) + 1
        at(j) == SubSeq(s, j, j + Len(p) - 1) = p
    IN  IF \E j \in i..last : at(j)
        THEN CHOOSE j \in i..last : at(j) /\ \A k \in i..(j - 1) : ~at(k)
        ELSE 0

contains(s, p) == find(s, p, 1) # 0

\* str::replace(p, ""): one left-to-right pass that drops each occurrence of
\* p found in what is left of the original text; the result is not re-scanned
RECURSIVE replace(_, _)
replace(s, p) ==
    IF find(s, p, 1) = 0 THEN s
    ELSE SubSeq(s, 1, find(s, p, 1) - 1)
           \o replace(SubSeq(s, find(s, p, 1) + Len(p), Len(s)), p)

\* str::trim
RECURSIVE trim_start(_)
trim_start(s) ==
    IF s # <<>> /\ Head(s) \in Whitespace THEN trim_start(Tail(s)) ELSE s
RECURSIVE trim_end(_)
trim_end(s) ==
    IF s # <<>> /\ s[Len(s)] \in Whitespace
    THEN trim_end(SubSeq(s, 1, Len(s) - 1)) ELSE s
trim(s) == trim_end(trim_start(s))

\* str::split(c): the pieces of s between the occurrences of the character c
RECURSIVE split(_, _)
split(s, c) ==
    IF find(s, <<c>>, 1) = 0 THEN <<s>>
    ELSE <<SubSeq(s, 1, find(s, <<c>>, 1) - 1)>>
           \o split(SubSeq(s, find(s, <<c>>, 1) + 1, Len(s)), c)

\* ------------------------------------------------------------------------
\* CSS parsing (lib.rs:404-555)
\* ------------------------------------------------------------------------
MAX_DEPTH == 256
IMPORTANT == <<"!", "i", "m", "p", "o", "r", "t", "a", "n", "t">>

\* lib.rs:516-537  remove_css_comments, from position i, inside a comment or
\* not. Outside a comment the loop pushes every character up to the next
\* '/' that is followed by '*' (lib.rs:521, 532); inside one it drops every
\* character up to and including the next '*' that is followed by '/'
\* (lib.rs:525-530), or to the end of the text.
RECURSIVE remove_css_comments_from(_, _, _)
remove_css_comments_from(css, i, in_comment) ==
    IF in_comment
    THEN IF find(css, <<"*", "/">>, i) = 0 THEN <<>>
         ELSE remove_css_comments_from(css, find(css, <<"*", "/">>, i) + 2, FALSE)
    ELSE IF find(css, <<"/", "*">>, i) = 0 THEN SubSeq(css, i, Len(css))
         ELSE SubSeq(css, i, find(css, <<"/", "*">>, i) - 1)
                \o remove_css_comments_from(css, find(css, <<"/", "*">>, i) + 2, TRUE)
remove_css_comments(css) == remove_css_comments_from(css, 1, FALSE)

\* lib.rs:540-555  normalize_css_properties over the pieces of split(';')
RECURSIVE normalize_props(_)
normalize_props(props) ==
    IF props = <<>> THEN <<>>
    ELSE (IF trim(Head(props)) # <<>> THEN trim(Head(props)) \o <<";">> ELSE <<>>)
           \o normalize_props(Tail(props))
normalize_css_properties(properties) == normalize_props(split(properties, ";"))

\* lib.rs:408-449  find_matching_brace: scan from position i with the brace
\* level, the open quote ("" when outside a string) and the escape flag;
\* the position of the matching '}', 0 for None
RECURSIVE matching_brace_from(_, _, _, _, _)
matching_brace_from(s, i, level, in_string, is_escaped) ==
    IF i > Len(s) THEN 0
    ELSE IF is_escaped THEN matching_brace_from(s, i + 1, level, in_string, FALSE)
    ELSE IF s[i] = "\\" THEN matching_brace_from(s, i + 1, level, in_string, TRUE)
    ELSE IF in_string # ""
    THEN matching_brace_from(s, i + 1, level,
                             IF s[i] = in_string THEN "" ELSE in_string, FALSE)
    ELSE IF s[i] \in {"'", "\""} THEN matching_brace_from(s, i + 1, level, s[i], FALSE)
    ELSE IF s[i] = "{" THEN matching_brace_from(s, i + 1, level + 1, "", FALSE)
    ELSE IF s[i] = "}"
    THEN IF level = 1 THEN i
         ELSE matching_brace_from(s, i + 1, level - 1, "", FALSE)
    ELSE matching_brace_from(s, i + 1, level, "", FALSE)
find_matching_brace_AtOpenBrace(s, start_pos) ==
    IF matching_brace_from(s, start_pos + 1, 1, "", FALSE) = 0 THEN 0
    ELSE start_pos - 1
find_matching_brace(s, start_pos) == matching_brace_from(s, start_pos + 1, 1, "", FALSE)

entry_push_str_Overwrite(style_map, selector, properties) ==
    [i \in 1..(Len(style_map) +
                (IF \E j \in 1..Len(style_map) : style_map[j][1] = selector
                 THEN 0 ELSE 1)) |->
        IF i <= Len(style_map) /\ style_map[i][1] # selector THEN style_map[i]
        ELSE <<selector, properties>>]
\* lib.rs:498-501  style_map.entry(selector).or_default().push_str(properties);
\* the map is kept as its (selector, properties) pairs in insertion order
RECURSIVE entry_push_str(_, _, _)
entry_push_str(style_map, selector, properties) ==
    IF style_map = <<>> THEN << <<selector, properties>> >>
    ELSE IF Head(style_map)[1] = selector
    THEN << <<selector, Head(style_map)[2] \o properties>> >> \o Tail(style_map)
    ELSE <<Head(style_map)>> \o entry_push_str(Tail(style_map), selector, properties)

\* lib.rs:491-503  the comma-separated selectors of one rule
RECURSIVE add_selectors(_, _, _)
add_selectors(style_map, selectors, properties_part) ==
    IF selectors = <<>> THEN style_map
    ELSE add_selectors(
           IF trim(Head(selectors)) # <<>>
           THEN entry_push_str(style_map, trim(Head(selectors)),
                               normalize_css_properties(properties_part))
           ELSE style_map,
           Tail(selectors), properties_part)

\* lib.rs:465-508  the scan of one block from `cursor`: rules are added to the
\* map, at-rule bodies are pushed on the work stack while it holds fewer than
\* MAX_DEPTH entries
RECURSIVE scan_block(_, _, _, _)
scan_block(current_css, cursor, work_stack, style_map) ==
    LET open_brace_pos == find(current_css, <<"{">>, cursor)
        close_brace_pos == find_matching_brace(current_css, open_brace_pos)
        selectors_part == SubSeq(current_css, cursor, open_brace_pos - 1)
        properties_part == SubSeq(current_css, open_brace_pos + 1, close_brace_pos - 1)
    IN  IF cursor > Len(current_css) \/ open_brace_pos = 0 \/ close_brace_pos = 0
        THEN [work_stack |-> work_stack, style_map |-> style_map]
        ELSE IF starts_with(trim(selectors_part), <<"@">>)
        THEN scan_block(current_css, close_brace_pos + 1,
                        IF Len(work_stack) < MAX_DEPTH
                        THEN Append(work_stack, properties_part) ELSE work_stack,
                        style_map)
        ELSE scan_block(current_css, close_brace_pos + 1, work_stack,
                        add_selectors(style_map, split(selectors_part, ","),
                                      properties_part))

\* lib.rs:463-509  pop blocks off the work stack until it is empty
RECURSIVE work_loop(_, _)
work_loop(work_stack, style_map) ==
    IF work_stack = <<>> THEN style_map
    ELSE work_loop(
           scan_block(work_stack[Len(work_stack)], 1,
                      SubSeq(work_stack, 1, Len(work_stack) - 1), style_map).work_stack,
           scan_block(work_stack[Len(work_stack)], 1,
                      SubSeq(work_stack, 1, Len(work_stack) - 1), style_map).style_map)

\* lib.rs:454-509  the HashMap parse_css_rules has built when its loop ends
style_map_of(css_content) ==
    work_loop(<<remove_css_comments(trim(css_content))>>, <<>>)

\* lib.rs:512  style_map.into_iter().collect(): a HashMap iterates in an
\* order that depends on its hasher's random keys, which are new for each
\* map, so the Vec is the pairs in any order. The possible results:
into_iter_collect(style_map) ==
    {[i \in 1..Len(style_map) |-> style_map[f[i]]] :
        f \in Permutations(1..Len(style_map))}
parse_css_rules(css_content) == into_iter_collect(style_map_of(css_content))

\* ------------------------------------------------------------------------
\* The SVG document and its preprocessing (lib.rs:559-803, 845-866)
\* ------------------------------------------------------------------------
\* A document as MSXML holds it: the text of its <style> elements and its
\* other elements, each with a tag, the names in its class attribute and its
\* style attribute (None: no such attribute). Documents are written without
\* entities or CDATA, so the input bytes hold these texts as they are.
Element(tag, class, style) == [tag |-> tag, class |-> class, style |-> style]

\* lib.rs:568  svg_string.contains("!important") on the input bytes
found_important(svg) ==
    \/ \E i \in 1..Len(svg.styles) : contains(svg.styles[i], IMPORTANT)
    \/ \E i \in 1..Len(svg.elems) :
         svg.elems[i].style # None /\ contains(svg.elems[i].style[1], IMPORTANT)

\* lib.rs:609  the text of each <style> element after css_text.replace
cleaned_css(styles) == [i \in 1..Len(styles) |-> replace(styles[i], IMPORTANT)]

\* lib.rs:601-621  combined_css: each cleaned text followed by a newline
RECURSIVE combined_css(_)
combined_css(cleaned) ==
    IF cleaned = <<>> THEN <<>>
    ELSE Head(cleaned) \o <<"\n">> \o combined_css(Tail(cleaned))

\* lib.rs:642-668  strip_important_from_inline_styles
strip_important_from_inline_styles(elems) ==
    [i \in 1..Len(elems) |->
        IF elems[i].style # None /\ contains(elems[i].style[1], IMPORTANT)
        THEN [elems[i] EXCEPT !.style = Some(replace(elems[i].style[1], IMPORTANT))]
        ELSE elems[i]]

\* lib.rs:559-637  extract_css_from_svg_data: the collected CSS and the
\* document handed on (the input itself when it holds no marker)
extract_css_from_svg_data(svg) ==
    [css |-> combined_css(cleaned_css(svg.styles)),
     svg |-> IF found_important(svg)
             THEN [styles |-> cleaned_css(svg.styles),
                   elems |-> strip_important_from_inline_styles(svg.elems)]
             ELSE svg]

is_valid_css_identifier_DigitFirst(s) ==
    /\ s # <<>>
    /\ \A i \in 1..Len(s) : s[i] \in Letters \cup Digits \cup {"-", "_"}
\* lib.rs:716-739
is_valid_css_identifier(s) ==
    /\ s # <<>>
    /\ s[1] \in Letters \cup {"_"}
    /\ \A i \in 2..Len(s) : s[i] \in Letters \cup Digits \cup {"-", "_"}

\* lib.rs:745-757  whether a query is built for the selector
selector_is_valid(selector) ==
    IF starts_with(selector, <<".">>)
    THEN is_valid_css_identifier(Tail(selector))
    ELSE is_valid_css_identifier(selector)

\* lib.rs:750, 756  the elements the selector's XPath query selects
xpath_selects(selector, e) ==
    IF starts_with(selector, <<".">>)
    THEN \E k \in 1..Len(e.class) : e.class[k] = Tail(selector)
    ELSE e.tag = selector

\* lib.rs:765-777  the element's style value with its separator
existing_style(style) ==
    IF style = None THEN <<>>
    ELSE IF style[1] # <<>> /\ ~ends_with(style[1], <<";">>)
    THEN style[1] \o <<";">>
    ELSE style[1]

\* lib.rs:781  format!("{}{}", properties_to_apply, existing_style)
final_style_Appended(properties_to_apply, existing) == existing \o properties_to_apply
final_style(properties_to_apply, existing) == properties_to_apply \o existing

\* lib.rs:744-792  the loop over the style map, one rule after the other
RECURSIVE apply_rules(_, _)
apply_rules(elems, style_map) ==
    IF style_map = <<>> THEN elems
    ELSE apply_rules(
           IF selector_is_valid(Head(style_map)[1])
           THEN [i \in 1..Len(elems) |->
                   IF xpath_selects(Head(style_map)[1], elems[i])
                   THEN [elems[i] EXCEPT !.style =
                           Some(final_style(Head(style_map)[2],
                                            existing_style(elems[i].style)))]
                   ELSE elems[i]]
           ELSE elems,
           Tail(style_map))

\* lib.rs:673-803
preprocess_svg_with_msxml(svg, style_map) ==
    IF style_map = <<>> THEN svg
    ELSE [svg EXCEPT !.elems = apply_rules(svg.elems, style_map)]

\* lib.rs:845-866  the CSS step of render_svg_to_hbitmap on uncompressed
\* data: every result it can have, with the collected CSS, the document
\* after extraction, the style map as iterated and the document handed to
\* the rasterizer
css_processing(svg) ==
    LET x == extract_css_from_svg_data(svg) IN
    IF trim(x.css) = <<>>
    THEN {[css |-> x.css, cleaned |-> x.svg, style_map |-> <<>>,
           processed |-> x.svg]}
    ELSE {[css |-> x.css, cleaned |-> x.svg, style_map |-> m,
           processed |-> preprocess_svg_with_msxml(x.svg, m)] :
            m \in parse_css_rules(x.css)}

\* ------------------------------------------------------------------------
\* The state machine
\* ------------------------------------------------------------------------
InitMain ==
    /\ RESOURCES = [t \in Threads |-> None]
    /\ created = [t \in Threads |-> 0]
    /\ svg_data = [p \in Providers |-> None]
    /\ USE_HARDWARE_ACCELERATION = FALSE
    /\ pc = [t \in Threads |-> "idle"]
    /\ frame = [t \in Threads |-> IdleFrame]
    /\ out = NoOut
    /\ lost = [t \in Threads |-> {}]
    /\ ncalls = 0

\* the entry points are explored with the CSS step's outcome drawn in DrawBlock
Init ==
    /\ InitMain
    /\ cssIn = 0 /\ cssOut = <<>>
    /\ pixIn = None /\ pixOut = None
    /\ interleaved = FALSE
    /\ parser = None

Step(t) ==
    \/ StartRender(t) \/ Validate(t) \/ GetResources(t) \/ CreateRenderTarget(t)
    \/ DrawBlock(t) \/ EndDraw1(t) \/ Effect(t) \/ EndDraw2(t) \/ Staging(t)
    \/ CopyPixels(t) \/ PostRender(t) \/ RenderReturn(t)
    \/ StartGetThumbnail(t) \/ GetThumbnailLock(t) \/ GetThumbnailMatch(t)
    \/ FallbackMatch(t) \/ LastResortStep(t)
    \/ StartInitialize(t) \/ InitializeCheck(t) \/ InitializeRead(t)
    \/ SimpleEntry(t) \/ Panic(t)

Next == \E t \in Threads : Step(t)

Spec == Init /\ [][Next]_vars

\* ------------------------------------------------------------------------
\* CSS preprocessing as a state machine of its own
\* ------------------------------------------------------------------------
MaxRuns == 2

\* the <style> texts of the input documents
Sheets ==
    <<
       <<>>,
       <<
        \* .a{fill:red}.b{fill:blue}
        <<".", "a", "{", "f", "i", "l", "l", ":", "r", "e", "d", "}", ".", "b", "{", "f", "i", "l", "l", ":", "b", "l", "u", "e", "}">> >>,
       <<
        \* .a{fill:red !important}
        <<".", "a", "{", "f", "i", "l", "l", ":", "r", "e", "d", " ", "!", "i", "m", "p", "o", "r", "t", "a", "n", "t", "}">> >>,
       <<
        \* .a{fill:red !impor!importanttant}
        <<".", "a", "{", "f", "i", "l", "l", ":", "r", "e", "d", " ", "!", "i", "m", "p", "o", "r", "!", "i", "m", "p", "o", "r", "t", "a", "n", "t", "t", "a", "n", "t", "}">> >>,
       <<
        \* .a, g{fill:red; stroke:red}
        <<".", "a", ",", " ", "g", "{", "f", "i", "l", "l", ":", "r", "e", "d", ";", " ", "s", "t", "r", "o", "k", "e", ":", "r", "e", "d", "}">> >>,
       <<
        \* @media{.a{fill:red}}.a{stroke:red}
        <<"@", "m", "e", "d", "i", "a", "{", ".", "a", "{", "f", "i", "l", "l", ":", "r", "e", "d", "}", "}", ".", "a", "{", "s", "t", "r", "o", "k", "e", ":", "r", "e", "d", "}">> >>,
       <<
        \* .1a{fill:red}.b{fill:blue}
        <<".", "1", "a", "{", "f", "i", "l", "l", ":", "r", "e", "d", "}", ".", "b", "{", "f", "i", "l", "l", ":", "b", "l", "u", "e", "}">> >>,
       <<
        \* /*c*/.a{fill:red}
        <<"/", "*", "c", "*", "/", ".", "a", "{", "f", "i", "l", "l", ":", "r", "e", "d", "}">>,
        \* .b{fill:blue}
        <<".", "b", "{", "f", "i", "l", "l", ":", "b", "l", "u", "e", "}">> >>,
       <<
        \* .a{fill:red !impor/**/tant}
        <<".", "a", "{", "f", "i", "l", "l", ":", "r", "e", "d", " ", "!", "i", "m", "p", "o", "r", "/", "*", "*", "/", "t", "a", "n", "t", "}">> >>
    >>

\* the elements of the input documents
ElementLists ==
    <<
       \* <g class="a b"/>
       <<Element(<<"g">>, <<<<"a">>, <<"b">>>>,
                  None)>>,
       \* <g class="a b" style="opacity:1"/>
       <<Element(<<"g">>, <<<<"a">>, <<"b">>>>,
                  Some(<<"o", "p", "a", "c", "i", "t", "y", ":", "1">>))>>,
       \* <rect class="a" style="opacity:1;"/><g/>
       <<Element(<<"r", "e", "c", "t">>, <<<<"a">>>>,
                  Some(<<"o", "p", "a", "c", "i", "t", "y", ":", "1", ";">>)),
         Element(<<"g">>, <<>>,
                  None)>>,
       \* <g class="b" style="opacity:1 !important"/>
       <<Element(<<"g">>, <<<<"b">>>>,
                  Some(<<"o", "p", "a", "c", "i", "t", "y", ":", "1", " ", "!", "i", "m", "p", "o", "r", "t", "a", "n", "t">>))>>,
       \* <g class="a" style="opacity:1 !impor!importanttant"/>
       <<Element(<<"g">>, <<<<"a">>>>,
                  Some(<<"o", "p", "a", "c", "i", "t", "y", ":", "1", " ", "!", "i", "m", "p", "o", "r", "!", "i", "m", "p", "o", "r", "t", "a", "n", "t", "t", "a", "n", "t">>))>>,
       \* <rect style=""/>
       <<Element(<<"r", "e", "c", "t">>, <<>>,
                  Some(<<>>))>>,
       \* <g class="1a b"/>
       <<Element(<<"g">>, <<<<"1", "a">>, <<"b">>>>,
                  None)>>
    >>

\* the input documents: each list of <style> texts with each list of elements
NumDocs == Len(Sheets) * Len(ElementLists)
Doc(i) ==
    [styles |-> Sheets[((i - 1) \div Len(ElementLists)) + 1],
     elems |-> ElementLists[((i - 1) % Len(ElementLists)) + 1]]

\* one uncompressed document is rendered again and again on one thread
InitCss ==
    /\ InitMain
    /\ cssIn \in 1..NumDocs /\ cssOut = <<>>
    /\ pixIn = None /\ pixOut = None
    /\ interleaved = FALSE
    /\ parser = None

\* lib.rs:845-866  one more render runs the CSS step on the document
CssProcessing ==
    /\ Len(cssOut) < MaxRuns
    /\ \E r \in css_processing(Doc(cssIn)) : cssOut' = Append(cssOut, r)
    /\ UNCHANGED cssIn
    /\ UNCHANGED <<mainVars, pixVars, interleaved, parser>>

NextCss == CssProcessing

SpecCss == InitCss /\ [][NextCss]_vars

\* ------------------------------------------------------------------------
\* The pixel copy of render_svg_to_hbitmap (lib.rs:1008-1051)
\* ------------------------------------------------------------------------
\* Byte counts of the mapped source reach pitch * height < 2^44. They are held
\* as four 16-bit limbs, least significant first (a u64).
LIMB == 65536
Big(n) == <<n % LIMB, (n \div LIMB) % LIMB, 0, 0>>
BigMul(x, m) ==
    LET p1 == x[1] * m
        p2 == x[2] * m + p1 \div LIMB
        p3 == x[3] * m + p2 \div LIMB
        p4 == x[4] * m + p3 \div LIMB
    IN  <<p1 % LIMB, p2 % LIMB, p3 % LIMB, p4 % LIMB>>
BigAdd(x, y) ==
    LET s1 == x[1] + y[1]
        s2 == x[2] + y[2] + s1 \div LIMB
        s3 == x[3] + y[3] + s2 \div LIMB
        s4 == x[4] + y[4] + s3 \div LIMB
    IN  <<s1 % LIMB, s2 % LIMB, s3 % LIMB, s4 % LIMB>>
BigLeq(x, y) ==
    \/ x[4] < y[4]
    \/ x[4] = y[4] /\ x[3] < y[3]
    \/ x[4] = y[4] /\ x[3] = y[3] /\ x[2] < y[2]
    \/ x[4] = y[4] /\ x[3] = y[3] /\ x[2] = y[2] /\ x[1] <= y[1]
\* usize::MAX of the build, and a value cast to usize
usize_MAX(bits) ==
    IF bits = 32 THEN <<LIMB - 1, LIMB - 1, 0, 0>>
    ELSE <<LIMB - 1, LIMB - 1, LIMB - 1, LIMB - 1>>
as_usize(x, bits) == IF bits = 32 THEN <<x[1], x[2], 0, 0>> ELSE x
U32_MAX == <<LIMB - 1, LIMB - 1, 0, 0>>

\* lib.rs:1027, 1038  u32 products of a validated width and height
\* (at most 4096 * 4096 * 4 = 2^26, below the u32 range)
dest_len(w, h) == w * h * 4
dest_stride(w) == w * 4

\* lib.rs:1040  std::cmp::min(dest_stride, source_stride)
row_copy_len_DestStride(ds, pitch) == ds
row_copy_len(ds, pitch) ==
    IF BigLeq(Big(ds), pitch) THEN ds ELSE pitch[1]

\* lib.rs:1035  &source_data[..dest_data.len()] and copy_from_slice: panics
\* when the source slice is shorter than the destination
bulk_copy_panics(src_len, dst_len) == ~BigLeq(Big(dst_len), src_len)

\* lib.rs:1042-1049  row y of the row-by-row copy: the slice indexing panics
\* when a range ends beyond its buffer
row_copy_panics(y, w, pitch, bits, src_len, dst_len) ==
    LET len == row_copy_len(dest_stride(w), pitch)
        src_start == as_usize(BigMul(pitch, y), bits)
        src_end == as_usize(BigAdd(src_start, Big(len)), bits)
        dest_start == y * dest_stride(w)
    IN  \/ ~BigLeq(src_start, src_end)
        \/ ~BigLeq(src_end, src_len)
        \/ dest_start + len > dst_len

\* the bytes of the first destination pixel: zero-filled (lib.rs:1030), then
\* overwritten by the first `len` bytes of the source's first pixel
first_pixel(sp, len) == [i \in 1..4 |-> IF i <= len THEN sp[i] ELSE 0]

\* lib.rs:1008-1051  the copy for a non-null dib_data:
\*   status  "ok", "E_FAIL" (size test at 1016) or "panic" (slice out of range)
\*   dst_len, src_len  the lengths of the two slices
\*   pixel   the first destination pixel afterwards
copy_pixels(in, sp) ==
    LET size64 == BigMul(in.pitch, in.h)
        dst == dest_len(in.w, in.h)
    IN  IF ~BigLeq(size64, usize_MAX(in.bits))
        THEN [status |-> "E_FAIL", dst_len |-> 0, src_len |-> size64,
              pixel |-> <<0, 0, 0, 0>>]
        ELSE IF in.pitch = Big(dest_stride(in.w))
        THEN [status |-> IF bulk_copy_panics(size64, dst) THEN "panic" ELSE "ok",
              dst_len |-> dst, src_len |-> size64,
              pixel |-> first_pixel(sp, 4)]
        ELSE [status |-> IF \E y \in 0..(in.h - 1) :
                              row_copy_panics(y, in.w, in.pitch, in.bits,
                                              size64, dst)
                         THEN "panic" ELSE "ok",
              dst_len |-> dst, src_len |-> size64,
              pixel |-> first_pixel(sp, row_copy_len(dest_stride(in.w), in.pitch))]

\* Sizes inside the validated range [1, 4096], the bounds included
PixelDims == {<<1, 1>>, <<2, 3>>, <<MAX_DIM, 1>>, <<1, MAX_DIM>>,
              <<MAX_DIM, MAX_DIM>>}
\* Row pitches a driver may report for width w: below, at and above w * 4,
\* an aligned one, 2^20 and the largest u32
Pitches(w) ==
    {Big(0), Big(1), Big(4 * w - 1), Big(4 * w), Big(4 * w + 1),
     Big(4 * w + 64), <<0, 16, 0, 0>>, U32_MAX}
\* pointer widths of the Windows targets
UsizeBits == {32, 64}
\* which bitmap the staging copy was taken from (lib.rs:969, 973); the
\* output bitmap stays undrawn when the effect's cast fails (lib.rs:958)
Finals == {"render_target_bitmap", "output_bitmap", "output_bitmap_undrawn"}
\* premultiplied BGRA pixels the rasterizer drew
DrawnPixels == {<<0, 0, 128, 128>>, <<255, 255, 255, 255>>, <<0, 0, 0, 0>>,
                <<16, 32, 64, 64>>}

\* lib.rs:940-956  the Direct2D UnPremultiply effect: colour / alpha
UnPremultiply(px) ==
    [i \in 1..4 |->
        IF i = 4 THEN px[4]
        ELSE IF px[4] = 0 THEN 0
        ELSE IF (px[i] * 255) \div px[4] > 255 THEN 255
        ELSE (px[i] * 255) \div px[4]]

\* the first pixel of the mapped source, given what was drawn; the contents
\* of a bitmap that was created and never drawn are unspecified
SourcePixels(final, px) ==
    CASE final = "render_target_bitmap" -> {px}
      [] final = "output_bitmap" -> {UnPremultiply(px)}
      [] OTHER -> DrawnPixels

PixelInputs ==
    {in \in [w : {d[1] : d \in PixelDims}, h : {d[2] : d \in PixelDims},
             pitch : UNION {Pitches(d[1]) : d \in PixelDims},
             bits : UsizeBits, final : Finals, px : DrawnPixels] :
        /\ <<in.w, in.h>> \in PixelDims
        /\ in.pitch \in Pitches(in.w)}

\* a render has reached step 8 with a non-null dib_data
InitPixels ==
    /\ InitMain
    /\ cssIn = 0 /\ cssOut = <<>>
    /\ pixIn \in {Some(in) : in \in PixelInputs}
    /\ pixOut = None
    /\ interleaved = FALSE
    /\ parser = None

\* lib.rs:1008-1051  the copy runs
PixelCopy ==
    /\ pixOut = None
    /\ \E sp \in SourcePixels(pixIn[1].final, pixIn[1].px) :
         pixOut' = Some(copy_pixels(pixIn[1], sp))
    /\ UNCHANGED <<mainVars, cssVars, pixIn, interleaved, parser>>

NextPixels == PixelCopy

SpecPixels == InitPixels /\ [][NextPixels]_vars

\* ------------------------------------------------------------------------
\* The entry points with calls on different threads overlapping freely
\* ------------------------------------------------------------------------
\* Threads render directly, and run the guarded entry points whose caught
\* panic empties the calling thread's cache, in any interleaving.
InitThreads ==
    /\ InitMain
    /\ cssIn = 0 /\ cssOut = <<>>
    /\ pixIn = None /\ pixOut = None
    /\ interleaved = TRUE
    /\ parser = None

StepThreads(t) ==
    \/ StartRender(t) \/ Validate(t) \/ GetResources(t) \/ CreateRenderTarget(t)
    \/ DrawBlock(t) \/ EndDraw1(t) \/ Effect(t) \/ EndDraw2(t) \/ Staging(t)
    \/ CopyPixels(t) \/ PostRender(t) \/ RenderReturn(t)
    \/ SimpleEntry(t) \/ Panic(t)

NextThreads == \E t \in Threads : StepThreads(t)

SpecThreads == InitThreads /\ [][NextThreads]_vars

\* ------------------------------------------------------------------------
\* parse_css_rules step by step (lib.rs:404-513)
\* ------------------------------------------------------------------------
\* lib.rs:465-508  one iteration of the inner loop over current_css at `cursor`
\* (positions are counted from 1):
\*   brk   "len": the cursor is past the text, "find": no '{' is left,
\*         "brace": the '{' has no matching '}', "none": a block was handled
\*   at_rule, pushed   the block was an at-rule; its body went on the stack
scan_iteration(current_css, cursor, work_stack, style_map) ==
    LET open_brace_pos == find(current_css, <<"{">>, cursor)
        close_brace_pos == find_matching_brace(current_css, open_brace_pos)
        selectors_part == SubSeq(current_css, cursor, open_brace_pos - 1)
        properties_part == SubSeq(current_css, open_brace_pos + 1, close_brace_pos - 1)
        stop(why) == [brk |-> why, cursor |-> cursor, work_stack |-> work_stack,
                      style_map |-> style_map, at_rule |-> FALSE,
                      pushed |-> FALSE, body |-> <<>>]
    IN  IF cursor > Len(current_css) THEN stop("len")
        ELSE IF open_brace_pos = 0 THEN stop("find")
        ELSE IF close_brace_pos = 0 THEN stop("brace")
        ELSE IF starts_with(trim(selectors_part), <<"@">>)
        THEN [brk |-> "none", cursor |-> close_brace_pos + 1,
              work_stack |-> IF Len(work_stack) < MAX_DEPTH
                             THEN Append(work_stack, properties_part)
                             ELSE work_stack,
              style_map |-> style_map, at_rule |-> TRUE,
              pushed |-> Len(work_stack) < MAX_DEPTH, body |-> properties_part]
        ELSE [brk |-> "none", cursor |-> close_brace_pos + 1,
              work_stack |-> work_stack,
              style_map |-> add_selectors(style_map, split(selectors_part, ","),
                                          properties_part),
              at_rule |-> FALSE, pushed |-> FALSE, body |-> properties_part]

\* The locals of parse_css_rules. Beside them the record keeps what the code
\* does not: `depth`, how many at-rules enclose current_css in the stylesheet,
\* `depths`, the same for each text on the work stack, and `last`, what the
\* latest step did.
NoStep == [kind |-> "none", depth |-> 0, cursor |-> 0, len |-> 0, body |-> 0]
ParserStart(css) ==
    [css |-> css, pc |-> "clean", cleaned_content |-> <<>>, work_stack |-> <<>>,
     depths |-> <<>>, current_css |-> <<>>, depth |-> 0, cursor |-> 0,
     style_map |-> <<>>, result |-> <<>>, last |-> NoStep]

\* lib.rs:457-460  trim, remove the comments, start the work stack
ParseClean ==
    /\ parser # None /\ parser[1].pc = "clean"
    /\ LET cleaned_content == remove_css_comments(trim(parser[1].css)) IN
       parser' = Some([parser[1] EXCEPT !.pc = "pop",
                                        !.cleaned_content = cleaned_content,
                                        !.work_stack = <<cleaned_content>>,
                                        !.depths = <<0>>])
    /\ UNCHANGED <<mainVars, cssVars, pixVars, interleaved>>

\* lib.rs:463-464  while let Some(current_css) = work_stack.pop()
ParsePop ==
    /\ parser # None /\ parser[1].pc = "pop"
    /\ LET p == parser[1]
           n == Len(p.work_stack) IN
       parser' = Some(
          IF n = 0
          THEN [p EXCEPT !.pc = "collect", !.current_css = <<>>, !.depth = 0,
                         !.cursor = 0, !.last = NoStep]
          ELSE [p EXCEPT !.pc = "scan",
                         !.current_css = p.work_stack[n],
                         !.depth = p.depths[n],
                         !.work_stack = SubSeq(p.work_stack, 1, n - 1),
                         !.depths = SubSeq(p.depths, 1, n - 1),
                         !.cursor = 1,
                         !.last = [NoStep EXCEPT !.kind = "pop"]])
    /\ UNCHANGED <<mainVars, cssVars, pixVars, interleaved>>

\* lib.rs:465-508  one iteration of the inner loop
ParseScan ==
    /\ parser # None /\ parser[1].pc = "scan"
    /\ LET p == parser[1]
           r == scan_iteration(p.current_css, p.cursor, p.work_stack, p.style_map)
       IN parser' = Some(
          [p EXCEPT !.pc = IF r.brk = "none" THEN "scan" ELSE "pop",
                    !.cursor = r.cursor,
                    !.work_stack = r.work_stack,
                    !.depths = IF r.pushed THEN Append(@, p.depth + 1) ELSE @,
                    !.style_map = r.style_map,
                    !.last = [kind |-> IF r.brk # "none" THEN r.brk
                                       ELSE IF ~r.at_rule THEN "rule"
                                       ELSE IF r.pushed THEN "push" ELSE "skip",
                              depth |-> p.depth + 1,
                              cursor |-> p.cursor,
                              len |-> Len(p.current_css),
                              body |-> Len(r.body)]])
    /\ UNCHANGED <<mainVars, cssVars, pixVars, interleaved>>

\* lib.rs:512  style_map.into_iter().collect()
ParseCollect ==
    /\ parser # None /\ parser[1].pc = "collect"
    /\ \E v \in into_iter_collect(parser[1].style_map) :
         parser' = Some([parser[1] EXCEPT !.pc = "done", !.result = v])
    /\ UNCHANGED <<mainVars, cssVars, pixVars, interleaved>>

\* The stylesheets parsed: every text made of at most MaxFragments of these
\* fragments, and a long one with more sibling at-rules than MAX_DEPTH.
MaxFragments == 4
Fragments ==
    { <<"a", "{", "x", "}">>,
      <<"a", ",", "b", "{", "y", ";", " ", "}">>,
      <<"@", "m", "{">>,
      <<"}">>,
      <<"{">>,
      <<"\"">>,
      <<"'">>,
      <<"/", "*">>,
      <<"*", "/">>,
      <<"\\">> }
RECURSIVE Flatten(_)
Flatten(texts) == IF texts = <<>> THEN <<>> ELSE Head(texts) \o Flatten(Tail(texts))
RECURSIVE Repeat(_, _)
Repeat(text, n) == IF n = 0 THEN <<>> ELSE text \o Repeat(text, n - 1)
ManySiblings ==
    Repeat(<<"@", "{", "}">>, MAX_DEPTH) \o <<"@", "{", "a", "{", "x", "}", "}">>
Stylesheets ==
    {Flatten(fs) : fs \in UNION {[1..n -> Fragments] : n \in 0..MaxFragments}}
        \cup {ManySiblings}

InitParser ==
    /\ InitMain
    /\ cssIn = 0 /\ cssOut = <<>>
    /\ pixIn = None /\ pixOut = None
    /\ interleaved = FALSE
    /\ parser = None

\* lib.rs:404  parse_css_rules is called with a stylesheet text
ParseCallWith(sheets) ==
    /\ parser = None
    /\ \E css \in sheets : parser' = Some(ParserStart(css))
    /\ UNCHANGED <<mainVars, cssVars, pixVars, interleaved>>
ParseCall == ParseCallWith(Stylesheets)

NextParser == ParseCall \/ ParseClean \/ ParsePop \/ ParseScan \/ ParseCollect

SpecParser == InitParser /\ [][NextParser]_vars

\* Termination is explored on the stylesheets made of the fragments that
\* shape the two loops: a rule, an at-rule, the opening of an at-rule, a
\* closing brace, an escaped opening brace and a quote, and on the long one.
MaxLoopFragments == 3
LoopFragments ==
    { <<"a", "{", "x", "}">>,
      <<"@", "m", "{", "a", "{", "x", "}", "}">>,
      <<"@", "m", "{">>,
      <<"}">>,
      <<"\\", "{">>,
      <<"\"">> }
LoopStylesheets ==
    {Flatten(fs) : fs \in UNION {[1..n -> LoopFragments] : n \in 0..MaxLoopFragments}}
        \cup {ManySiblings}
ParseCallLoop == ParseCallWith(LoopStylesheets)
NextParserLoop ==
    ParseCallLoop \/ ParseClean \/ ParsePop \/ ParseScan \/ ParseCollect

\* parse_css_rules is straight-line code in one thread: a step that can be
\* taken is taken
SpecParserFair == InitParser /\ [][NextParserLoop]_vars /\ WF_vars(NextParserLoop)

\* ------------------------------------------------------------------------
\* Properties of the entry points
\* ------------------------------------------------------------------------
\* positions inside render_svg_to_hbitmap after its size validation
PastValidation == {"get", "create_rt", "draw", "end_draw1", "effect",
                   "end_draw2", "staging", "copy"}

\* the sizes named by the size validation's contract
BadSize(w, h) == w = 0 \/ h = 0 \/ w > 4096 \/ h > 4096

\* C1: a render_svg_to_hbitmap call with a zero or over-4096 width or height
\* returns E_INVALIDARG, never gets past the size validation, and hands back
\* the thread's cache exactly as it found it.
C1_InvalidSizeRejected ==
    \A t \in Threads :
        BadSize(frame[t].w, frame[t].h) =>
            /\ pc[t] \notin PastValidation
            /\ pc[t] = "ret" =>
                 /\ frame[t].err = Err("E_INVALIDARG", "validate")
                 /\ ~frame[t].touched
                 /\ frame[t].bmp = NoBitmap
                 /\ RESOURCES[t] = frame[t].cache0

\* C1 witness: an over-4096 request has returned on a thread holding a cache
C1_Witness ==
    \E t \in Threads :
        /\ pc[t] = "ret"
        /\ frame[t].w > 4096
        /\ frame[t].err.code = "E_INVALIDARG"
        /\ RESOURCES[t] # None

\* C2: a triple for which the recreate-target signal was seen stays in the
\* cache only as poisoned, and the triple a successful get_d2d_resources
\* returns is never such a triple: after a poisoning it is newly created.
C2_LostNeverReused ==
    \A t \in Threads :
        /\ RESOURCES[t] # None /\ RESOURCES[t][1].d2d_context \in lost[t]
             => RESOURCES[t][1].poisoned
        /\ pc[t] = "create_rt" =>
             /\ frame[t].res # None
             /\ frame[t].res[1].d2d_factory \notin lost[t]
             /\ frame[t].res[1].d2d_device \notin lost[t]
             /\ frame[t].res[1].d2d_context \notin lost[t]
             /\ ~frame[t].res[1].poisoned
             /\ (frame[t].cache0 # None /\ frame[t].cache0[1].poisoned) =>
                  /\ frame[t].made
                  /\ frame[t].res[1].d2d_context # frame[t].cache0[1].d2d_context
                  /\ RESOURCES[t] = Some(frame[t].res[1])

\* C2 witness: get_d2d_resources has just succeeded on a poisoned cache
C2_Witness ==
    \E t \in Threads :
        /\ pc[t] = "create_rt"
        /\ frame[t].cache0 # None
        /\ frame[t].cache0[1].poisoned
        /\ frame[t].cache0[1].d2d_context \in lost[t]
        /\ frame[t].made

\* a GetThumbnail call on a provider holding data has returned
ThumbnailReturned == out.entry = "GetThumbnail" /\ svg_data[out.prov] # None

\* C3 as stated: GetThumbnail on an initialized provider returns an error
\* only when the render and the fallback both failed.
C3_ErrorOnlyWhenBothFailed ==
    (ThumbnailReturned /\ out.hr # NoErr) =>
        (out.renderErr # NoErr /\ out.fallbackErr # NoErr)

\* C3 amended: GetThumbnail on an initialized provider returns an error only
\* when the render and the fallback both failed, the error then being the
\* render's, or when ffi_guard caught a panic, the error then being E_FAIL with
\* no bitmap and no fallback attempted after the panic; otherwise it returns
\* success with the rendered bitmap, or the fallback's when the render failed.
C3_ErrorOnlyWhenBothFailedOrPanic ==
    ThumbnailReturned =>
        IF out.caught
        THEN out.hr = Err("E_FAIL", "ffi_guard") /\ out.phbmp = NoBitmap
        ELSE IF out.renderErr # NoErr /\ out.fallbackErr # NoErr
        THEN out.hr = out.renderErr /\ out.phbmp = NoBitmap
        ELSE /\ out.hr = NoErr
             /\ out.fallbackErr = NoErr
             /\ IF out.renderErr = NoErr
                THEN out.phbmp.kind = "rendered" /\ ~out.fellBack
                ELSE out.phbmp.kind \in {"placeholder", "solid"} /\ out.fellBack

\* C3 witness: both the render and the fallback failed and the render's error
\* came back, the two errors being different
C3_Witness ==
    /\ ThumbnailReturned
    /\ out.renderErr # NoErr
    /\ out.fallbackErr # NoErr
    /\ out.fallbackErr # out.renderErr
    /\ out.hr = out.renderErr

\* the render errors raised by the size validation or by get_d2d_resources
DirectSites == {"validate", "ComGuard", "D2D1CreateFactory",
                "D3D11CreateDevice", "CreateDevice"}

\* C4 as stated: a size-validation or resource-creation failure of the render
\* comes back from GetThumbnail as an error, never as a fallback bitmap.
C4_DirectErrorsReachHost ==
    (out.entry = "GetThumbnail" /\ out.renderErr.site \in DirectSites) =>
        (out.hr # NoErr /\ out.phbmp = NoBitmap)

\* C4 amended: render_svg_to_hbitmap returns a size-validation or
\* resource-creation failure to its own caller as an error; GetThumbnail then
\* calls the fallback and returns that error only when the fallback failed
\* too, and otherwise returns success with the fallback's bitmap.
C4_DirectErrorsReachHostOnlyIfFallbackFails ==
    /\ (out.entry = "render_svg_to_hbitmap" /\ out.renderErr.site \in DirectSites)
         => (out.hr = out.renderErr /\ out.phbmp = NoBitmap)
    /\ (out.entry = "GetThumbnail" /\ out.renderErr.site \in DirectSites) =>
         /\ out.fellBack
         /\ (out.hr # NoErr) <=> (out.fallbackErr # NoErr)
         /\ out.hr # NoErr => out.hr = out.renderErr /\ out.phbmp = NoBitmap
         /\ out.hr = NoErr =>
              /\ out.phbmp.kind \in {"placeholder", "solid"}
              /\ out.pdwalpha = "WTSAT_ARGB"

\* C4 witness: the render failed creating its device and GetThumbnail returned
\* success with the placeholder
C4_Witness ==
    /\ out.entry = "GetThumbnail"
    /\ out.renderErr.site = "D3D11CreateDevice"
    /\ out.hr = NoErr
    /\ out.phbmp.kind = "placeholder"

\* C5 as stated: create_fallback_thumbnail never fails, and its last resort
\* is always a size x size bitmap filled with one opaque colour.
C5_FallbackNeverFails ==
    (out.entry = "GetThumbnail" /\ out.fellBack) =>
        /\ out.fallbackErr = NoErr
        /\ out.phbmp.kind = "solid" =>
             out.phbmp = Bitmap("solid", out.w, out.w, "0xFF000000")

\* C5 amended: create_fallback_thumbnail returns the placeholder when its
\* render succeeds; otherwise its result is CreateDIBSection's: an error when
\* that call fails, else a size x size bitmap, filled with
\* opaque 0xFF000000 when the call gave a pointer to the pixels and left
\* unfilled when it gave none.
C5_FallbackFailsOnlyWithDibSection ==
    (out.entry = "GetThumbnail" /\ out.fellBack) =>
        CASE out.dib = "none" ->
               /\ out.fallbackErr = NoErr
               /\ out.phbmp = Bitmap("placeholder", out.w, out.w, out.phbmp.fill)
          [] out.dib = "ok" ->
               /\ out.fallbackErr = NoErr
               /\ out.phbmp = Bitmap("solid", out.w, out.w, "0xFF000000")
          [] out.dib = "ok_null" ->
               /\ out.fallbackErr = NoErr
               /\ out.phbmp = Bitmap("solid", out.w, out.w, "unfilled")
          [] OTHER ->
               /\ out.fallbackErr = Err(out.dib, "last_resort")
               /\ out.phbmp = NoBitmap
               /\ out.hr = out.renderErr

\* C5 witness: the placeholder render failed and the last resort returned a
\* filled bitmap
C5_Witness ==
    /\ out.entry = "GetThumbnail"
    /\ out.fellBack
    /\ out.dib = "ok"
    /\ out.phbmp = Bitmap("solid", 4097, 4097, "0xFF000000")

\* C6 as stated: no panic raised inside an entry point, the public
\* render_svg_to_hbitmap included, ever reaches the caller.
C6_NoPanicReachesCaller == ~out.panic /\ \A t \in Threads : pc[t] # "dead"

\* a stream that reports or delivers more than the cap
Oversize(s) == ~s.null /\ (s.stat > MAX_SIZE \/ Delivered(s.segs) > MAX_SIZE)

\* C7 as stated: Initialize with an oversize stream returns file-too-large
\* and the provider's data is unset afterwards (panics left aside).
C7_OversizeAlwaysRejected ==
    (out.entry = "Initialize" /\ Oversize(Streams[out.stream]) /\ ~out.caught) =>
        /\ out.hr = Err("ERROR_FILE_TOO_LARGE", "Initialize")
        /\ svg_data[out.prov] = None

\* C7 amended: Initialize with an oversize stream never stores data, and
\* returns file-too-large unless the provider already held data
\* (already-initialized) or a panic was caught (E_FAIL); and while a provider
\* holds no data, GetThumbnail on it returns E_UNEXPECTED with no bitmap and is
\* never inside the render or the fallback.
C7_OversizeStoresNothing ==
    /\ (out.entry = "Initialize" /\ Oversize(Streams[out.stream])) =>
         /\ ~out.stored
         /\ out.hr \in {Err("ERROR_FILE_TOO_LARGE", "Initialize"),
                        Err("ERROR_ALREADY_INITIALIZED", "Initialize"),
                        Err("E_FAIL", "ffi_guard")}
         /\ out.hr.code = "ERROR_ALREADY_INITIALIZED" => svg_data[out.prov] # None
         /\ out.hr.code = "E_FAIL" => out.caught
    /\ \A t \in Threads :
         (frame[t].entry = "GetThumbnail" /\ pc[t] # "gt_lock")
             => svg_data[frame[t].prov] # None
    /\ (out.entry = "GetThumbnail" /\ svg_data[out.prov] = None) =>
         /\ out.hr = Err("E_UNEXPECTED", "GetThumbnail")
         /\ out.phbmp = NoBitmap
         /\ ~out.fellBack

\* C7 witness: a stream reporting a small size delivered more than the cap to
\* a provider without data, and Initialize returned file-too-large
C7_Witness ==
    /\ out.entry = "Initialize"
    /\ Streams[out.stream].stat <= MAX_SIZE
    /\ Delivered(Streams[out.stream].segs) > MAX_SIZE
    /\ out.hr = Err("ERROR_FILE_TOO_LARGE", "Initialize")
    /\ svg_data[out.prov] = None

\* ------------------------------------------------------------------------
\* Properties of the CSS preprocessing
\* ------------------------------------------------------------------------
\* C8 as stated: two renders of the same bytes on one thread hand the same
\* processed document to the rasterizer.
C8_SameInputSameProcessedSvg ==
    \A i, j \in 1..Len(cssOut) : cssOut[i].processed = cssOut[j].processed

\* the previous style value with ';' appended when it is non-empty and does
\* not end in ';'
PreviousStyle(e) ==
    IF e.style = None THEN <<>>
    ELSE IF e.style[1] # <<>> /\ e.style[1][Len(e.style[1])] # ";"
    THEN e.style[1] \o <<";">>
    ELSE e.style[1]

\* the rules of a style map whose selector is valid and matches the element
Matching(style_map, e) ==
    {k \in 1..Len(style_map) :
        selector_is_valid(style_map[k][1]) /\ xpath_selects(style_map[k][1], e)}

\* the properties of the matching rules, the rule applied last coming first
RECURSIVE Injected(_, _)
Injected(style_map, e) ==
    IF style_map = <<>> THEN <<>>
    ELSE Injected(Tail(style_map), e)
           \o (IF 1 \in Matching(style_map, e) THEN Head(style_map)[2] ELSE <<>>)

\* C9: after preprocess_svg_with_msxml an element matched by no valid
\* selector is unchanged, and one matched by valid selectors has as style the
\* properties of the matching rules followed by its previous style value
\* (with its ';' separator), so that its own declarations come last.
C9_InlineStyleComesLast ==
    \A n \in 1..Len(cssOut) :
        \A i \in 1..Len(cssOut[n].cleaned.elems) :
            LET e == cssOut[n].cleaned.elems[i]
                p == cssOut[n].processed.elems[i] IN
            /\ p.tag = e.tag /\ p.class = e.class
            /\ IF Matching(cssOut[n].style_map, e) = {}
               THEN p.style = e.style
               ELSE /\ p.style = Some(Injected(cssOut[n].style_map, e)
                                        \o PreviousStyle(e))
                    /\ \A k \in Matching(cssOut[n].style_map, e) :
                         contains(Injected(cssOut[n].style_map, e),
                                  cssOut[n].style_map[k][2])

\* C9 witness: an element whose style did not end in ';' was matched by two
\* rules with properties
C9_Witness ==
    \E n \in 1..Len(cssOut) :
        \E i \in 1..Len(cssOut[n].cleaned.elems) :
            LET e == cssOut[n].cleaned.elems[i] IN
            /\ e.style # None
            /\ e.style[1] # <<>>
            /\ ~ends_with(e.style[1], <<";">>)
            /\ Cardinality(Matching(cssOut[n].style_map, e)) = 2
            /\ \A k \in Matching(cssOut[n].style_map, e) :
                 cssOut[n].style_map[k][2] # <<>>
            /\ cssOut[n].processed.elems[i].style # e.style

\* C10 as stated: when the input holds the marker "!important", neither the
\* collected stylesheet text nor any element's style attribute holds it after
\* preprocessing.
C10_MarkerAbsentAfterPreprocessing ==
    \A n \in 1..Len(cssOut) :
        found_important(Doc(cssIn)) =>
            /\ ~contains(cssOut[n].css, IMPORTANT)
            /\ \A i \in 1..Len(cssOut[n].processed.elems) :
                 cssOut[n].processed.elems[i].style # None =>
                     ~contains(cssOut[n].processed.elems[i].style[1], IMPORTANT)

\* ------------------------------------------------------------------------
\* Properties of the pixel copy
\* ------------------------------------------------------------------------
\* C11: for every validated size and every reported pitch the copy indexes
\* neither slice out of range (no bulk or row range ends beyond the
\* width*height*4 destination bytes or the pitch*height source bytes), the
\* destination length is exactly width*height*4 and fits 32 bits; the copy is
\* refused with E_FAIL only when pitch*height exceeds the build's usize.
C11_CopyStaysInsideBuffers ==
    pixOut # None =>
        LET in == pixIn[1]
            o == pixOut[1] IN
        /\ o.status # "panic"
        /\ o.src_len = BigMul(in.pitch, in.h)
        /\ o.status = "ok" =>
             /\ o.dst_len = in.w * in.h * 4
             /\ o.dst_len \div LIMB < LIMB
             /\ BigLeq(o.src_len, usize_MAX(in.bits))
        /\ o.status = "E_FAIL" =>
             in.bits = 32 /\ ~BigLeq(o.src_len, U32_MAX)

\* C11 witness: a 4096 x 4096 surface with a pitch above width*4 was copied
\* row by row
C11_Witness ==
    /\ pixOut # None
    /\ pixOut[1].status = "ok"
    /\ pixIn[1].w = MAX_DIM /\ pixIn[1].h = MAX_DIM
    /\ pixIn[1].pitch = Big(4 * MAX_DIM + 64)

\* C12 as stated: without the GPU effect a fully copied pixel with
\* 0 < alpha < 255 comes out with each colour channel equal to
\* (channel * ((255 << 8) / alpha)) >> 8, and a pixel with alpha 255 unchanged.
C12_StraightAlphaWithoutEffect ==
    (/\ pixOut # None
     /\ pixOut[1].status = "ok"
     /\ pixIn[1].final = "render_target_bitmap"
     /\ BigLeq(Big(4), pixIn[1].pitch)) =>
        LET px == pixIn[1].px
            o == pixOut[1].pixel IN
        /\ o[4] = px[4]
        /\ (0 < px[4] /\ px[4] < 255) =>
             \A i \in 1..3 : o[i] = (px[i] * ((255 * 256) \div px[4])) \div 256
        /\ px[4] = 255 => o = px

\* ------------------------------------------------------------------------
\* Properties of the render pipeline and of the cache
\* ------------------------------------------------------------------------
\* C13 as stated: no failure inside the CSS preprocessing makes
\* render_svg_to_hbitmap return an error.
C13_CssFailureNeverFailsRender ==
    \A t \in Threads : pc[t] = "ret" => frame[t].err.site # "css"

\* C14: whenever GetThumbnail has returned, an error result (a caught panic
\* and an uninitialized provider included) comes with a null *phbmp and
\* WTSAT_UNKNOWN, and a success result with a non-null bitmap and WTSAT_ARGB.
C14_OutputsAgreeWithResult ==
    out.entry = "GetThumbnail" =>
        IF out.hr # NoErr
        THEN out.phbmp = NoBitmap /\ out.pdwalpha = "WTSAT_UNKNOWN"
        ELSE /\ out.phbmp # NoBitmap
             /\ out.phbmp.kind \in {"rendered", "placeholder", "solid"}
             /\ out.pdwalpha = "WTSAT_ARGB"

\* C14 witness: GetThumbnail returned success with the last resort's bitmap
C14_Witness ==
    /\ out.entry = "GetThumbnail"
    /\ out.hr = NoErr
    /\ out.fellBack
    /\ out.phbmp.kind = "solid"
    /\ out.pdwalpha = "WTSAT_ARGB"

\* a ledger of a bitmap whose creating call has ended: if the bitmap was made
\* it was handed out once or deleted once, never both, never neither
Settled(g) ==
    /\ g.made => g.deleted + g.returned = 1
    /\ ~g.made => g.deleted = 0 /\ g.returned = 0

\* C15: while a render holds its bitmap in an HBitmapGuard the bitmap is
\* neither deleted nor handed out; once the render, the last resort or the
\* entry point has ended (by a return, an error or a panic), every bitmap made
\* was either handed to the caller once and not deleted, or deleted once and
\* not handed out, and a bitmap is handed out exactly when one is returned.
C15_BitmapReturnedOrDeletedOnce ==
    /\ \A t \in Threads :
         /\ frame[t].hbitmap_guard # "null" =>
              frame[t].gdi = [made |-> TRUE, deleted |-> 0, returned |-> 0]
         /\ frame[t].hbitmap_guard = "null" => Settled(frame[t].gdi)
         /\ pc[t] \in {"post", "ret"} =>
              (frame[t].gdi.returned = 1 <=> frame[t].bmp # NoBitmap)
    /\ Settled(out.gdi)
    /\ out.gdi.returned = 1 <=> out.phbmp # NoBitmap

\* C15 witness: a panic during the pixel copy of a GetThumbnail call unwound
\* through the guard, which deleted the bitmap
C15_Witness ==
    /\ out.entry = "GetThumbnail"
    /\ out.caught
    /\ out.gdi = [made |-> TRUE, deleted |-> 1, returned |-> 0]

\* C16 as stated: a render one of whose EndDraw calls failed with the
\* recreate-target code returns an error, the thread's cache being poisoned
\* by then.
C16_LostEndDrawIsReported ==
    \A t \in Threads :
        (pc[t] = "ret" /\ frame[t].endDrawLost) =>
            /\ frame[t].err # NoErr
            /\ RESOURCES[t] # None /\ RESOURCES[t][1].poisoned

\* the render errors raised inside get_d2d_resources
CreateSites == {"ComGuard", "D2D1CreateFactory", "D3D11CreateDevice",
                "CreateDevice"}

\* C17 as stated: when get_d2d_resources found the cache poisoned and the
\* creation then failed, the cache holds no objects afterwards.
C17_FailedRecreationLeavesCacheEmpty ==
    \A t \in Threads :
        (/\ pc[t] = "post"
         /\ frame[t].err.site \in CreateSites
         /\ frame[t].cache0 # None
         /\ frame[t].cache0[1].poisoned) => RESOURCES[t] = None

\* C18: a get_d2d_resources call that found a cache that was present and not
\* poisoned created nothing and returned the cached factory, device and
\* context, the cache staying as it was; a call that created a triple found
\* the cache empty (never filled, or emptied by a caught panic) or poisoned.
C18_CacheReusedUnlessEmptyOrPoisoned ==
    \A t \in Threads :
        pc[t] = "create_rt" =>
            LET c == frame[t].cache0 IN
            /\ (c # None /\ ~c[1].poisoned) =>
                 /\ ~frame[t].made
                 /\ frame[t].res = c
                 /\ RESOURCES[t] = c
            /\ frame[t].made =>
                 /\ c = None \/ c[1].poisoned
                 /\ frame[t].res[1].d2d_context = <<t, created[t]>>
                 /\ c # None => c[1].d2d_context[2] < created[t]

\* C18 witness: a render reused the triple an earlier render on the thread
\* had created
C18_Witness ==
    \E t \in Threads :
        /\ pc[t] = "create_rt"
        /\ frame[t].cache0 # None
        /\ ~frame[t].cache0[1].poisoned
        /\ ~frame[t].made
        /\ frame[t].res = frame[t].cache0
        /\ created[t] = 1

\* ------------------------------------------------------------------------
\* Properties under interleaving
\* ------------------------------------------------------------------------
\* the objects of a triple were created on thread t
OwnedBy(r, t) ==
    r[1].d2d_factory[1] = t /\ r[1].d2d_device[1] = t /\ r[1].d2d_context[1] = t

\* the step is one of thread t
Acted(t) ==
    \/ pc'[t] # pc[t]
    \/ frame'[t] # frame[t]
    \/ ncalls' # ncalls /\ out'.thread = t

\* C19: under any interleaving of calls on several threads, the triple a
\* thread caches and the triple get_d2d_resources returns on it were created
\* on that thread, and a step of one thread (poisoning, re-creation and the
\* emptying after a caught panic included) leaves every other thread's cache,
\* creations and lost triples as they were.
C19_CachePrivateToThread ==
    /\ [](\A t \in Threads :
            /\ RESOURCES[t] # None => OwnedBy(RESOURCES[t], t)
            /\ frame[t].res # None => OwnedBy(frame[t].res, t))
    /\ [][\A t, u \in Threads :
            (t # u /\ Acted(t)) =>
                /\ ~Acted(u)
                /\ RESOURCES'[u] = RESOURCES[u]
                /\ created'[u] = created[u]
                /\ lost'[u] = lost[u]]_vars

\* C19 witness: a thread is inside a render with the second triple it
\* created, its first one having been lost, while another thread is inside a
\* render with an intact cache of its own
C19_Witness ==
    \E t, u \in Threads :
        /\ t # u
        /\ pc[t] \notin {"idle", "dead"} /\ pc[u] \notin {"idle", "dead"}
        /\ created[t] = 2 /\ lost[t] # {}
        /\ frame[t].made
        /\ RESOURCES[u] # None /\ ~RESOURCES[u][1].poisoned

\* C20: for one provider, however Initialize calls interleave, a call succeeds
\* only while nothing is stored, and data once stored is never replaced: no
\* step changes a provider's stored data, and no Initialize call finishes
\* with success on a provider that already holds data.
C20_StoredDataNeverReplaced ==
    [][\A p \in Providers :
         svg_data[p] # None =>
            /\ svg_data'[p] = svg_data[p]
            /\ \A t \in Threads :
                 (pc[t] = "init_read" /\ frame[t].prov = p /\ pc'[t] # "init_read")
                    => out'.hr # NoErr]_vars

C22_DeviceFailureOnlyAfterWarpFailed ==
    \A t \in Threads :
        LET f == frame[t]
            a == f.attempts
            n == Len(a) IN
        (f.touched /\ pc[t] \in {"create_rt", "post"}) =>
            /\ (\E i \in 1..n : a[i].driver = "hardware")
                  => USE_HARDWARE_ACCELERATION /\ a[1].driver = "hardware"
            /\ (n > 0 /\ USE_HARDWARE_ACCELERATION) => a[1].driver = "hardware"
            /\ \A i \in 1..n :
                  /\ a[i].driver = "warp" /\ i > 1
                        => a[i - 1] = [driver |-> "hardware", ok |-> FALSE]
                  /\ a[i] = [driver |-> "hardware", ok |-> FALSE]
                        => i < n /\ a[i + 1].driver = "warp"
                  /\ a[i].ok => i = n
            /\ f.err.site = "D3D11CreateDevice"
                  <=> (n > 0 /\ a[n] = [driver |-> "warp", ok |-> FALSE])
            /\ f.device \in {"hardware", "warp"}
                  => a[n] = [driver |-> f.device, ok |-> TRUE]
            /\ f.made => f.device \in {"hardware", "warp"}

\* C22 witness: the hardware attempt failed, the software device was created
\* and the acquisition succeeded on it
C22_Witness ==
    \E t \in Threads :
        /\ pc[t] = "create_rt"
        /\ frame[t].made
        /\ frame[t].device = "warp"
        /\ frame[t].attempts = << [driver |-> "hardware", ok |-> FALSE],
                                  [driver |-> "warp", ok |-> TRUE] >>

\* C23: when the un-premultiply effect cannot be created, or cannot be cast to
\* a drawable image, the bitmap the render returns is copied from the rendered
\* surface: a returned bitmap is never the copy of the secondary surface that
\* nothing was drawn into.
C23_FailedEffectUsesRenderedSurface ==
    \A t \in Threads :
        (pc[t] \in {"post", "ret"} /\ frame[t].err = NoErr)
            => frame[t].bmp.fill \in {"render_target_bitmap", "output_bitmap"}

\* C24: parse_css_rules flattens at-rules by nesting depth: the body of an
\* at-rule is pushed for re-scanning when at most MAX_DEPTH at-rules enclose
\* it (itself included), and is skipped only when it is nested deeper,
\* however many sibling at-rules the stylesheet has.
C24_FlatteningBoundedByDepth ==
    parser # None =>
        LET l == parser[1].last IN
        /\ l.kind = "push" => l.depth <= MAX_DEPTH
        /\ l.kind = "skip" => l.depth > MAX_DEPTH

\* the properties stored for a selector (empty when it has no entry), the
\* selectors a rule's selector list names, and how often it names one
PropertiesOf(style_map, selector) ==
    IF \E i \in 1..Len(style_map) : style_map[i][1] = selector
    THEN style_map[CHOOSE i \in 1..Len(style_map) : style_map[i][1] = selector][2]
    ELSE <<>>
SelectorsOf(style_map) == {style_map[i][1] : i \in 1..Len(style_map)}
Occurrences(list, selector) ==
    Cardinality({i \in 1..Len(list) : trim(list[i]) = selector})

\* C25: parse_css_rules keeps one entry per selector. Every rule block, at top
\* level or in a flattened at-rule body, appends its normalized properties to
\* the text already stored for each selector its list names and changes no
\* other entry; no other step changes the map; the returned list holds the
\* map's entries, each selector once.
C25_RulesAppendPerSelector ==
    /\ [](parser # None =>
            LET p == parser[1] IN
            /\ \A i, j \in 1..Len(p.style_map) :
                  p.style_map[i][1] = p.style_map[j][1] => i = j
            /\ p.pc = "done" =>
                  /\ Len(p.result) = Len(p.style_map)
                  /\ \A sel \in SelectorsOf(p.style_map) :
                        /\ PropertiesOf(p.result, sel) = PropertiesOf(p.style_map, sel)
                        /\ Cardinality({i \in 1..Len(p.result) :
                                           p.result[i][1] = sel}) = 1)
    /\ [][parser # None =>
            LET p == parser[1]
                q == parser'[1]
                open_brace_pos == find(p.current_css, <<"{">>, p.cursor)
                close_brace_pos == find_matching_brace(p.current_css, open_brace_pos)
                list == split(SubSeq(p.current_css, p.cursor, open_brace_pos - 1), ",")
                props == normalize_css_properties(
                            SubSeq(p.current_css, open_brace_pos + 1,
                                   close_brace_pos - 1))
            IN  IF p.pc = "scan" /\ q.last.kind = "rule"
                THEN \A sel \in SelectorsOf(p.style_map) \cup SelectorsOf(q.style_map)
                                   \cup {trim(list[i]) : i \in 1..Len(list)} :
                        PropertiesOf(q.style_map, sel) =
                           PropertiesOf(p.style_map, sel)
                              \o (IF sel # <<>>
                                  THEN Repeat(props, Occurrences(list, sel))
                                  ELSE <<>>)
                ELSE q.style_map = p.style_map]_vars

\* C25 witness: a rule inside an at-rule body has appended to the text that a
\* top-level rule stored for the same selector
C25_Witness ==
    /\ parser # None
    /\ parser[1].last.kind = "rule"
    /\ parser[1].last.depth = 2
    /\ PropertiesOf(parser[1].style_map, <<"a">>) = <<"x", ";", "x", ";">>

\* a selector as the claim allows it: after an optional leading '.', a name
\* that starts with a letter or '_' and goes on with letters, digits, '-', '_'
NameIsSafe(name) ==
    /\ Len(name) >= 1
    /\ name[1] \in Letters \cup {"_"}
    /\ \A i \in 2..Len(name) : name[i] \in Letters \cup Digits \cup {"-", "_"}
SelectorIsSafe(selector) ==
    NameIsSafe(IF selector # <<>> /\ selector[1] = "." THEN Tail(selector)
               ELSE selector)
RECURSIVE SafeRules(_)
SafeRules(style_map) ==
    IF style_map = <<>> THEN <<>>
    ELSE (IF SelectorIsSafe(Head(style_map)[1]) THEN <<Head(style_map)>> ELSE <<>>)
           \o SafeRules(Tail(style_map))

\* C26: preprocess_svg_with_msxml builds a query only from a safe selector:
\* the document it returns is the one obtained by applying the rules of the
\* safe selectors alone, in the same order, so that a rule with any other
\* selector changes no element and stops no later rule.
C26_UnsafeSelectorsSkipped ==
    \A n \in 1..Len(cssOut) :
        /\ cssOut[n].processed.elems =
              apply_rules(cssOut[n].cleaned.elems, SafeRules(cssOut[n].style_map))
        /\ SafeRules(cssOut[n].style_map) = <<>>
              => cssOut[n].processed.elems = cssOut[n].cleaned.elems

\* C26 witness: the style map held a rule for the class "1a" and a rule for
\* the class "b"; an element of both classes received the second rule only
C26_Witness ==
    \E n \in 1..Len(cssOut) :
        /\ \E k \in 1..Len(cssOut[n].style_map) :
              cssOut[n].style_map[k][1] = <<".", "1", "a">>
        /\ \E k \in 1..Len(cssOut[n].style_map) :
              cssOut[n].style_map[k][1] = <<".", "b">>
        /\ \E i \in 1..Len(cssOut[n].cleaned.elems) :
              /\ cssOut[n].cleaned.elems[i].class = << <<"1", "a">>, <<"b">> >>
              /\ cssOut[n].cleaned.elems[i].style = None
              /\ cssOut[n].processed.elems[i].style
                    = Some(<<"f", "i", "l", "l", ":", "b", "l", "u", "e", ";">>)

\* the text with the block comments that start outside a quoted string
\* removed: from position i, the next quote opens a string that runs to the
\* same quote character and is kept as it is (a quote that is never closed
\* opens nothing), the next "/*" opens a comment that runs to the next "*/"
\* and is dropped
FirstOpener(css, i) ==
    LET c == {find(css, <<"\"">>, i), find(css, <<"'">>, i),
              find(css, <<"/", "*">>, i)} \ {0}
    IN  IF c = {} THEN 0 ELSE CHOOSE j \in c : \A k \in c : j <= k
RECURSIVE CommentsOutsideStringsRemoved(_, _)
CommentsOutsideStringsRemoved(css, i) ==
    LET j == FirstOpener(css, i) IN
    IF j = 0 THEN SubSeq(css, i, Len(css))
    ELSE IF css[j] = "/"
    THEN SubSeq(css, i, j - 1)
           \o (IF find(css, <<"*", "/">>, j + 2) = 0 THEN <<>>
               ELSE CommentsOutsideStringsRemoved(
                       css, find(css, <<"*", "/">>, j + 2) + 2))
    ELSE IF find(css, <<css[j]>>, j + 1) = 0
    THEN SubSeq(css, i, j) \o CommentsOutsideStringsRemoved(css, j + 1)
    ELSE SubSeq(css, i, find(css, <<css[j]>>, j + 1))
           \o CommentsOutsideStringsRemoved(css, find(css, <<css[j]>>, j + 1) + 1)

\* C27: remove_css_comments removes exactly the block comments that lie
\* outside quoted strings; a quoted string, and a "/*" inside it, is in the
\* output unchanged.
C27_CommentsRemovedOutsideStringsOnly ==
    (parser # None /\ parser[1].pc # "clean") =>
        parser[1].cleaned_content
            = CommentsOutsideStringsRemoved(trim(parser[1].css), 1)

\* C28: when ffi_guard has caught a panic on a thread, that thread's cache is
\* empty, whatever it held and whatever was in use when the panic occurred;
\* and an acquisition that finds the cache empty and succeeds creates a new
\* triple, caches it and returns it.
C28_CaughtPanicEmptiesCache ==
    /\ [](out.caught => RESOURCES[out.thread] = None)
    /\ [][\A t \in Threads :
            (pc[t] = "get" /\ RESOURCES[t] = None /\ pc'[t] = "create_rt") =>
                /\ created'[t] = created[t] + 1
                /\ RESOURCES'[t] = Some(ThreadResources(t, created'[t]))
                /\ frame'[t].res = RESOURCES'[t]
                /\ frame'[t].made]_vars

\* C28 witness: a panic was caught on a thread that had created a triple
\* before, and the thread's cache is empty
C28_Witness ==
    /\ out.caught
    /\ created[out.thread] >= 1
    /\ RESOURCES[out.thread] = None

\* C29: in a render every BeginDraw is followed by exactly one EndDraw before
\* the next BeginDraw and before the render returns, with or without an
\* error: the EndDraw count never passes the BeginDraw count, lags it by one
\* exactly while a draw block is open, a BeginDraw is issued only when no
\* block is open, and the counts are equal once the render has returned.
C29_BeginDrawPairedWithEndDraw ==
    /\ [](\A t \in Threads :
            LET f == frame[t] IN
            /\ f.end_draws <= f.begin_draws
            /\ f.begin_draws <= f.end_draws + 1
            /\ f.drawing <=> f.begin_draws = f.end_draws + 1
            /\ pc[t] \in {"post", "ret", "staging", "copy", "effect"}
                  => f.begin_draws = f.end_draws)
    /\ [][\A t \in Threads :
            /\ frame'[t].begin_draws > frame[t].begin_draws
                  => ~frame[t].drawing /\ frame'[t].begin_draws = frame[t].begin_draws + 1
            /\ frame'[t].end_draws > frame[t].end_draws
                  => frame[t].drawing /\ frame'[t].end_draws = frame[t].end_draws + 1]_vars

\* C29 witness: a render returned an error raised inside its first draw block,
\* after one BeginDraw and one EndDraw
C29_Witness ==
    \E t \in Threads :
        /\ pc[t] = "post"
        /\ frame[t].err.site = "css"
        /\ frame[t].begin_draws = 1
        /\ frame[t].end_draws = 1

\* C30: parse_css_rules terminates on every stylesheet. An iteration that
\* stays in its block moves the cursor forward; an at-rule body pushed on the
\* work stack is shorter than the text it was cut from; an opening brace
\* without a match ends the scan of its block, leaving the map and the stack
\* as they were; and every parse reaches its end.
C30_ParseTerminates ==
    /\ [][(parser # None /\ parser[1].pc = "scan") =>
            LET p == parser[1]
                q == parser'[1]
                open_brace_pos == find(p.current_css, <<"{">>, p.cursor)
            IN  /\ q.pc = "scan" => q.cursor > p.cursor
                /\ Len(q.work_stack) > Len(p.work_stack) =>
                      /\ Len(q.work_stack) = Len(p.work_stack) + 1
                      /\ Len(q.work_stack[Len(q.work_stack)]) < Len(p.current_css)
                /\ (open_brace_pos # 0
                      /\ find_matching_brace(p.current_css, open_brace_pos) = 0) =>
                      /\ q.pc = "pop"
                      /\ q.style_map = p.style_map
                      /\ q.work_stack = p.work_stack]_vars
    /\ (parser # None) ~> (parser # None /\ parser[1].pc = "done")

\* C30 witness: a parse ended after the scan of an at-rule body stopped at an
\* opening brace without a match
C30_Witness ==
    /\ parser # None
    /\ parser[1].pc = "pop"
    /\ parser[1].last.kind = "brace"
    /\ parser[1].last.depth = 2

====
